---- MODULE Spec2Model ----
(***************************************************************************)
(* Verification model of the LoRaWAN Basic Station (MultiTech fork).      *)
(*                                                                         *)
(* The module holds one state machine per part of the station, over        *)
(* groups of variables of their own, and one specification per machine:    *)
(*   SpecRx  - uplink path: rx job -> PHY frame check -> uplink message,   *)
(*             with the JSON codec (s2e_parse_lora_frame) and the binary   *)
(*             codec (tcpb_encRawFrame)                                    *)
(*   SpecDR  - DR tables of the session context and the lookups on them    *)
(*   SpecTx  - the downlink job queue, the radio hand-off, disconnect      *)
(*   SpecCfg - router_config handling: sx130xconf_parse_setup and          *)
(*             sx130xconf_start against the HAL                            *)
(*   SpecDC  - duty-cycle ledger (EU868 bands)                             *)
(*   SpecHal - hand-over of a downlink to the HAL (lgwsim) and CCA         *)
(*   SpecLbt - LBT setup at concentrator start (setup_LBT)                 *)
(*   SpecPps, SpecDrift - PPS loss recovery and drift recovery             *)
(*   SpecPdu - PDU-only mode and the PDU encoding                          *)
(*   SpecNego - negotiation of the protocol format                         *)
(*   SpecTcpb - the binary codec: encoders, wire format, tcpb_decode       *)
(*   SpecSess - errors local to one message and the LNS session            *)
(*   SpecLayer - layered sx130x configuration (sx130xconf_parse_setup)     *)
(*   SpecChalloc - channel allocation into the IF chains of the chips      *)
(*   SpecJob, SpecJobLive - fate of one downlink job up to its confirmation*)
(*   SpecRing - the simulator's receive ring: read_socket, lgw_receive     *)
(*   SpecTxstat - the simulator's TX state: lgw_send, lgw_status           *)
(*   SpecConn, SpecConnLive - the simulator's socket and its retry timer   *)
(*   SpecLut - TX gain table at concentrator start                         *)
(***************************************************************************)
EXTENDS Integers, Sequences, FiniteSets, TLC

VARIABLES
    \* ---- uplink path (SpecRx)
    s2e_joineuiFilter,     \* sequence of JoinEUI ranges [lo, hi]; <<>> = no filter
    s2e_netidFilter,       \* set of NetIDs whose bit is set in the bitmap
    s2e_pduOnly,           \* PDU-only mode flag of the session
    tcpb_protocol_format,  \* TCPROTO_JSON or TCPROTO_PROTOBUF
    rxframe,               \* the rx job last taken from the rx queue
    upmsg,                 \* what was sent to the LNS for rxframe (NoMsg: nothing)
    \* ---- DR tables (SpecDR)
    s2ctx,                 \* dr_defs, dr_defs_up, dr_defs_dn, asymmetric_drs
    drq,                   \* the last DR lookup and its result
    rc,                    \* DR fields of this session's router_config, in order
    \* ---- downlink queue (SpecTx)
    txq,                   \* pending downlink jobs, in queue order
    now,                   \* the radio's time
    session,               \* 0: no LNS session, else the id of the open session
    nsessions,             \* sessions opened so far
    njobs,                 \* jobs accepted so far (arrival counter)
    timers,                \* armed timers, each tagged with its session
    txlog,                 \* ids of the jobs handed to the radio so far
    lastev,                \* the last hand-off or timer expiry, for the properties
    lasttx,                \* effective transmit time of the last job handed over
    cancelled,             \* jobs that were pending at some disconnect
    \* ---- router_config / concentrator setup (SpecCfg)
    TX_DWELLTIME_LBT,      \* process-global s2conf parameter
    sx130xconf,            \* the struct filled by sx130xconf_parse_setup
    hal,                   \* what the HAL holds: settings applied, running or not
    cfgsession,            \* "up" or "terminated"
    lastcfg,               \* the router_config handled last and its outcome
    \* ---- duty-cycle ledger (SpecDC)
    duty_cycle_enabled,    \* duty-cycle enforcement of the session
    dc_eu868bands,         \* per band: the time from which the band is free again
    dclog,                 \* the downlinks admitted in this session: band, t, airtime
    dcreq,                 \* the last admission decision
    \* ---- hand-over to the HAL and confirmation (SpecHal)
    cca_msg,               \* lgwsim: the busy intervals told by the test harness
    aio,                   \* lgwsim: TRUE while the simulation socket is open
    txbeg,                 \* lgwsim: begin of the transmission last asked for
    txend,                 \* lgwsim: its end
    tx_pkt,                \* lgwsim: the packet last taken over
    txjob,                 \* id of the downlink on air, 0 if none
    jobst,                 \* per downlink: lgw_send calls, result, messages sent
    halnjobs,              \* downlinks handed over so far
    \* ---- LBT setup at concentrator start (SpecLbt)
    lbtrun,                \* the last sx130xconf_start as far as LBT goes
    \* ---- PPS loss recovery (SpecPps)
    ppsfeed,               \* TRUE while the concentrator latches PPS pulses
    nopps,                 \* ms since the last valid PPS, as of the last check
    no_pps_resets,         \* resets since the last valid PPS (failure counter)
    toggles,               \* ms, counted like nopps, of each GPS-enable toggle
    lastoutage,            \* length and toggles of the outage that ended last
    exited,                \* the process has exited for the supervisor
    \* ---- drift recovery (SpecDrift)
    excessive_drift_cnt,   \* consecutive drift rejections
    drift_thres,           \* drift tolerance in ppm
    widenings,             \* widenings of the tolerance in this run of rejections
    lastdrift,             \* the last drift sample and what became of it
    drift_exited,          \* the process has exited on persistent drift
    \* ---- PDU-only mode and PDU encoding (SpecPdu, with s2e_pduOnly)
    s2e_pduEncoding,       \* PDU encoding of the session
    pdurc,                 \* pdu_only and pdu_encoding of the last router_config
    pdurcprev,             \* and of the one before it
    pduup,                 \* the last PDU-only uplink: frame and pdu field
    pdudn,                 \* the last downlink: bytes of the LNS, pdu field, bytes sent
    \* ---- format negotiation (SpecNego, with tcpb_protocol_format)
    tcstate,               \* "disconnected", "discovered", "connected", "configured"
    fmtarg,                \* argument of this session's last tcpb_setFormat, or "unset"
    fmtbefore,             \* tcpb_protocol_format before that call
    prevfmt,               \* tcpb_protocol_format when the last session ended
    tcmsg,                 \* the last message of the session: kind, direction, wire
    \* ---- binary codec (SpecTcpb)
    pbstate,               \* "idle", "sent", "received", "failed"
    pbmsg,                 \* the message handed to the encoder
    pbwire,                \* its encoding: length (or -1) and bytes
    lnsrx,                 \* what the LNS decoded from an uplink
    tcpbrx,                \* what tcpb_decode returned and left in *result
    pbjobs,                \* the downlink jobs enqueued from tcpbrx
    \* ---- local errors and the session (SpecSess)
    ses,                   \* "connected" or "closed"
    seslast,               \* the last event of the session and its outcome
    seserrs,               \* messages, frames and downlinks dropped in this session
    \* ---- layers of the concentrator configuration (SpecLayer)
    setupin,               \* the configuration objects last given to sx130xconf_parse_setup
    setupout,              \* its return value and the struct it filled
    \* ---- channel allocation (SpecChalloc)
    chpre,                 \* the struct as sx130xconf_parse_setup left it
    chconf,                \* the struct the callback works on
    alloc,                 \* the position of ral_challoc and the channels it assigned
    \* ---- life of a downlink job (SpecJob)
    dnjobs,                \* per downlink job its state, time and the messages sent for it
    dnup,                  \* the LNS session is up
    dnnow,                 \* the radio's time
    dnn,                   \* jobs accepted so far
    \* ---- rx ring buffer of the simulator (SpecRing)
    rb,                    \* rx_pkts, rx_ridx, rx_widx, rx_dsc, the packet in cca_msg, the bytes waiting in the socket, and what became of the bytes read
    rbkinds,               \* per packet the harness began, whether it is a CCA message
    rbsent,                \* bytes the harness has written
    rbret,                 \* the packets lgw_receive has returned, all calls together
    rblast,                \* the last call of lgw_receive
    \* ---- tx state of the simulator (SpecTxstat)
    tssim,                 \* txbeg, txend, tx_pkt, aio and cca_msg of the simulator
    xt,                    \* xticks
    tsn,                   \* calls of lgw_send so far
    tsacc,                 \* the last accepted lgw_send
    tsobs,                 \* the last answer of lgw_status
    tslast,                \* the last call of lgw_send
    \* ---- the simulator's socket (SpecConn)
    simconn,               \* aio, the descriptors open, and conn_tmr
    simrun,                \* between lgw_start and lgw_stop
    simstarts,             \* calls of lgw_start so far
    simwait,               \* since the last attempt, whether it failed and the seconds gone
    simtry,                \* the attempt just made
    \* ---- tx gain table at concentrator start (SpecLut)
    lutin,                 \* the tx_lut of the configuration and the region
    lutout                 \* the rf_power values of the table given to the HAL

rxvars  == <<s2e_joineuiFilter, s2e_netidFilter, s2e_pduOnly, tcpb_protocol_format,
             rxframe, upmsg>>
drvars  == <<s2ctx, drq, rc>>
txvars  == <<txq, now, session, nsessions, njobs, timers, txlog, lastev, lasttx,
             cancelled>>
cfgvars == <<TX_DWELLTIME_LBT, sx130xconf, hal, cfgsession, lastcfg>>
dcvars  == <<duty_cycle_enabled, dc_eu868bands, dclog, dcreq>>
halvars == <<cca_msg, aio, txbeg, txend, tx_pkt, txjob, jobst, halnjobs>>
lbtvars == <<lbtrun>>
ppsvars == <<ppsfeed, nopps, no_pps_resets, toggles, lastoutage, exited>>
driftvars == <<excessive_drift_cnt, drift_thres, widenings, lastdrift, drift_exited>>
pduvars == <<s2e_pduEncoding, pdurc, pdurcprev, pduup, pdudn>>
negovars == <<tcstate, fmtarg, fmtbefore, prevfmt, tcmsg>>
tcpbvars == <<pbstate, pbmsg, pbwire, lnsrx, tcpbrx, pbjobs>>
sessvars == <<ses, seslast, seserrs>>
layervars == <<setupin, setupout>>
challocvars == <<chpre, chconf, alloc>>
jobvars == <<dnjobs, dnup, dnnow, dnn>>
ringvars == <<rb, rbkinds, rbsent, rbret, rblast>>
txstatvars == <<tssim, xt, tsn, tsacc, tsobs, tslast>>
connvars == <<simconn, simrun, simstarts, simwait, simtry>>
lutvars == <<lutin, lutout>>
vars    == <<rxvars, drvars, txvars, cfgvars, dcvars, halvars, lbtvars, ppsvars,
             driftvars, pduvars, negovars, tcpbvars, sessvars, layervars, challocvars, jobvars, ringvars, txstatvars, connvars, lutvars>>

\* What the actions of one part leave alone.
notRx   == <<drvars, txvars, cfgvars, dcvars, halvars, lbtvars, ppsvars,
             driftvars, pduvars, negovars, tcpbvars, sessvars, layervars, challocvars, jobvars, ringvars, txstatvars, connvars, lutvars>>
notDR   == <<rxvars, txvars, cfgvars, dcvars, halvars, lbtvars, ppsvars,
             driftvars, pduvars, negovars, tcpbvars, sessvars, layervars, challocvars, jobvars, ringvars, txstatvars, connvars, lutvars>>
notTx   == <<rxvars, drvars, cfgvars, dcvars, halvars, lbtvars, ppsvars,
             driftvars, pduvars, negovars, tcpbvars, sessvars, layervars, challocvars, jobvars, ringvars, txstatvars, connvars, lutvars>>
notCfg  == <<rxvars, drvars, txvars, dcvars, halvars, lbtvars, ppsvars,
             driftvars, pduvars, negovars, tcpbvars, sessvars, layervars, challocvars, jobvars, ringvars, txstatvars, connvars, lutvars>>
notDC   == <<rxvars, drvars, txvars, cfgvars, halvars, lbtvars, ppsvars,
             driftvars, pduvars, negovars, tcpbvars, sessvars, layervars, challocvars, jobvars, ringvars, txstatvars, connvars, lutvars>>
notHal  == <<rxvars, drvars, txvars, cfgvars, dcvars, lbtvars, ppsvars,
             driftvars, pduvars, negovars, tcpbvars, sessvars, layervars, challocvars, jobvars, ringvars, txstatvars, connvars, lutvars>>
notLbt  == <<rxvars, drvars, txvars, cfgvars, dcvars, halvars, ppsvars,
             driftvars, pduvars, negovars, tcpbvars, sessvars, layervars, challocvars, jobvars, ringvars, txstatvars, connvars, lutvars>>
notPps  == <<rxvars, drvars, txvars, cfgvars, dcvars, halvars, lbtvars,
             driftvars, pduvars, negovars, tcpbvars, sessvars, layervars, challocvars, jobvars, ringvars, txstatvars, connvars, lutvars>>
notDrift == <<rxvars, drvars, txvars, cfgvars, dcvars, halvars, lbtvars, ppsvars,
             pduvars, negovars, tcpbvars, sessvars, layervars, challocvars, jobvars, ringvars, txstatvars, connvars, lutvars>>
\* SpecPdu writes s2e_pduOnly of the uplink path and leaves the rest of it.
notPdu  == <<s2e_joineuiFilter, s2e_netidFilter, tcpb_protocol_format, rxframe, upmsg,
             drvars, txvars, cfgvars, dcvars, halvars, lbtvars, ppsvars, driftvars,
             negovars, tcpbvars, sessvars, layervars, challocvars, jobvars, ringvars, txstatvars, connvars, lutvars>>
\* SpecNego writes tcpb_protocol_format of the uplink path and leaves the rest.
notNego == <<s2e_joineuiFilter, s2e_netidFilter, s2e_pduOnly, rxframe, upmsg,
             drvars, txvars, cfgvars, dcvars, halvars, lbtvars, ppsvars, driftvars,
             pduvars, tcpbvars, sessvars, layervars, challocvars, jobvars, ringvars, txstatvars, connvars, lutvars>>
notTcpb == <<rxvars, drvars, txvars, cfgvars, dcvars, halvars, lbtvars, ppsvars,
             driftvars, pduvars, negovars, sessvars, layervars, challocvars, jobvars, ringvars, txstatvars, connvars, lutvars>>
notSess == <<rxvars, drvars, txvars, cfgvars, dcvars, halvars, lbtvars, ppsvars,
             driftvars, pduvars, negovars, tcpbvars, layervars, challocvars, jobvars, ringvars, txstatvars, connvars, lutvars>>
notLayer == <<rxvars, drvars, txvars, cfgvars, dcvars, halvars, lbtvars, ppsvars,
             driftvars, pduvars, negovars, tcpbvars, sessvars, challocvars, jobvars, ringvars, txstatvars, connvars, lutvars>>
notChalloc == <<rxvars, drvars, txvars, cfgvars, dcvars, halvars, lbtvars, ppsvars,
             driftvars, pduvars, negovars, tcpbvars, sessvars, layervars, jobvars, ringvars, txstatvars, connvars, lutvars>>
notJob == <<rxvars, drvars, txvars, cfgvars, dcvars, halvars, lbtvars, ppsvars,
             driftvars, pduvars, negovars, tcpbvars, sessvars, layervars, challocvars, ringvars, txstatvars, connvars, lutvars>>
notRing == <<rxvars, drvars, txvars, cfgvars, dcvars, halvars, lbtvars, ppsvars,
             driftvars, pduvars, negovars, tcpbvars, sessvars, layervars, challocvars, jobvars, txstatvars, connvars, lutvars>>
notTxstat == <<rxvars, drvars, txvars, cfgvars, dcvars, halvars, lbtvars, ppsvars,
             driftvars, pduvars, negovars, tcpbvars, sessvars, layervars, challocvars, jobvars, ringvars, connvars, lutvars>>
notConn == <<rxvars, drvars, txvars, cfgvars, dcvars, halvars, lbtvars, ppsvars,
             driftvars, pduvars, negovars, tcpbvars, sessvars, layervars, challocvars, jobvars, ringvars, txstatvars, lutvars>>
notLut == <<rxvars, drvars, txvars, cfgvars, dcvars, halvars, lbtvars, ppsvars,
             driftvars, pduvars, negovars, tcpbvars, sessvars, layervars, challocvars, jobvars, ringvars, txstatvars, connvars>>

(***************************************************************************)
(* Uplink path                                                             *)
(***************************************************************************)

\* ---- bounds of the uplink model
MaxEui   == 3      \* JoinEUIs are 1..MaxEui (0 is not a JoinEUI of a device)
MaxNetId == 1      \* NetIDs are 0..MaxNetId

\* ---- protocol format (tcpb.h)
TCPROTO_JSON     == 0
TCPROTO_PROTOBUF == 1

\* ---- LoRaWAN MHdr (tcpb.c)
MHDR_FTYPE   == 224
MHDR_MAJOR   == 3
MAJOR_V1     == 0
FRMTYPE_JREQ == 0
FRMTYPE_JACC == 32
FRMTYPE_DAUP == 64
FRMTYPE_DADN == 96
FRMTYPE_DCUP == 128
FRMTYPE_DCDN == 160
FRMTYPE_REJN == 192
FRMTYPE_PROP == 224

\* ---- frame layout
OFF_jreq_len      == 23
OFF_rejoin_minlen == 19
OFF_rejoin_maxlen == 24
OFF_df_minlen     == 12
OFF_fopts         == 8

\* mhdr & MHDR_FTYPE and mhdr & MHDR_MAJOR on an 8-bit value
FType(mhdr) == (mhdr \div 32) * 32
Major(mhdr) == mhdr % 4

NoMsg == [msgtype |-> "none", pdulen |-> 0]
Msg(t, n) == [msgtype |-> t, pdulen |-> n]

\* The MHdr bytes tried: every frame type with major version v1.0, and the join
\* request, data-up, rejoin and proprietary types with another major version.
\* RFU bits (0x1C) are zero in all of them.
MHdrs == {0, 32, 64, 96, 128, 160, 192, 224, 1, 65, 195, 226}

\* The frame lengths tried: the boundaries of every length check of both codecs.
FrameLens == {0, 1, 11, 12, 13, 18, 19, 22, 23, 24, 25}

\* A received frame is its MHdr, its length and the fields the checks read:
\* the JoinEUI (join request; rejoin request of type 1, 24 bytes), the 7-bit
\* NetID of DevAddr and FCtrl's FOptsLen (data frames). Fields a frame does not
\* have are 0.
IsJreqType(mhdr) == FType(mhdr) = FRMTYPE_JREQ
IsDataUpType(mhdr) == FType(mhdr) \in {FRMTYPE_DAUP, FRMTYPE_DCUP}
IsRejoinType(mhdr) == FType(mhdr) = FRMTYPE_REJN

Frames ==
    { [mhdr |-> m, len |-> l, joineui |-> j, netid |-> n, foptslen |-> f] :
        m \in MHdrs, l \in FrameLens, j \in 0..MaxEui, n \in 0..MaxNetId, f \in {0, 1} }

FrameInputs ==
    { fr \in Frames :
        /\ (IsJreqType(fr.mhdr) /\ fr.len >= OFF_jreq_len) => fr.joineui # 0
        /\ fr.joineui # 0 =>
              \/ IsJreqType(fr.mhdr) /\ fr.len >= OFF_jreq_len
              \/ IsRejoinType(fr.mhdr) /\ fr.len = OFF_rejoin_maxlen
        /\ ~IsDataUpType(fr.mhdr) => (fr.netid = 0 /\ fr.foptslen = 0) }

\* No rx job taken yet (or the last one fully dealt with).
NoFrame == [mhdr |-> 0, len |-> -1, joineui |-> 0, netid |-> 0, foptslen |-> 0]

\* ---- the filters a router_config can install
Range(lo, hi) == [lo |-> lo, hi |-> hi]
Ranges == { Range(lo, hi) : lo \in 1..MaxEui, hi \in 1..MaxEui }
\* JoinEui: no range, one range, or two ranges (sorted, non-overlapping).
ValidRanges == { x \in Ranges : x.lo <= x.hi }
JoinEuiFilters ==
    {<<>>}
    \cup { <<r>> : r \in ValidRanges }
    \cup { p \in { <<r1, r2>> : r1 \in ValidRanges, r2 \in ValidRanges } :
                p[2].lo > p[1].hi }
NetIdFilters == SUBSET (0..MaxNetId)
AllNetIds == 0..MaxNetId

\* JoinEUI filter scan of s2e_parse_lora_frame: walk the ranges in order, pass
\* at the first one holding the EUI (bounds inclusive), filtered at the end.
RECURSIVE JoinEuiScan(_, _, _)
JoinEuiScan(filter, joineui, i) ==
    IF i > Len(filter) THEN FALSE
    ELSE IF joineui >= filter[i].lo /\ joineui <= filter[i].hi THEN TRUE
    ELSE JoinEuiScan(filter, joineui, i + 1)

JoinEuiPass(filter, joineui) ==
    IF Len(filter) = 0 THEN TRUE ELSE JoinEuiScan(filter, joineui, 1)

\* NetID filter: the bit of the frame's NetID in the 128-bit map.
NetIdPass(filter, netid) == netid \in filter

\* Variant of s2e_parse_lora_frame that applies the JoinEUI filter to type 1
\* rejoin requests as it does to join requests.
s2e_parse_lora_frame_filterRejoin(fr, jfilter, nfilter) ==
    LET ftype == FType(fr.mhdr) IN
    IF fr.len = 0 THEN NoMsg
    ELSE IF (fr.len < OFF_df_minlen /\ ftype # FRMTYPE_PROP)
            \/ Major(fr.mhdr) # MAJOR_V1 THEN NoMsg
    ELSE IF ftype = FRMTYPE_PROP THEN Msg("propdf", fr.len)
    ELSE IF ftype = FRMTYPE_JACC THEN Msg("jacc", fr.len)
    ELSE IF ftype = FRMTYPE_JREQ THEN
        IF fr.len # OFF_jreq_len THEN NoMsg
        ELSE IF ~JoinEuiPass(jfilter, fr.joineui) THEN NoMsg
        ELSE Msg("jreq", fr.len)
    ELSE IF ftype = FRMTYPE_REJN THEN
        IF fr.len < OFF_rejoin_minlen \/ fr.len > OFF_rejoin_maxlen THEN NoMsg
        ELSE IF fr.joineui # 0 /\ ~JoinEuiPass(jfilter, fr.joineui) THEN NoMsg
        ELSE Msg("rejoin", fr.len)
    ELSE IF OFF_fopts + fr.foptslen > fr.len - 4 THEN NoMsg
    ELSE IF ~NetIdPass(nfilter, fr.netid) THEN NoMsg
    ELSE Msg(IF ftype \in {FRMTYPE_DAUP, FRMTYPE_DCUP} THEN "updf" ELSE "dndf", fr.len)

\* s2e_parse_lora_frame: the JSON codec's frame check. Returns the message
\* written to the send buffer, NoMsg when the function returns 0.
s2e_parse_lora_frame(fr, jfilter, nfilter) ==
    LET ftype == FType(fr.mhdr) IN
    IF fr.len = 0 THEN NoMsg
    ELSE IF (fr.len < OFF_df_minlen /\ ftype # FRMTYPE_PROP)
            \/ Major(fr.mhdr) # MAJOR_V1 THEN NoMsg
    ELSE IF ftype = FRMTYPE_PROP THEN Msg("propdf", fr.len)
    ELSE IF ftype = FRMTYPE_JACC THEN Msg("jacc", fr.len)
    ELSE IF ftype = FRMTYPE_JREQ THEN
        IF fr.len # OFF_jreq_len THEN NoMsg
        ELSE IF ~JoinEuiPass(jfilter, fr.joineui) THEN NoMsg
        ELSE Msg("jreq", fr.len)
    ELSE IF ftype = FRMTYPE_REJN THEN
        IF fr.len < OFF_rejoin_minlen \/ fr.len > OFF_rejoin_maxlen THEN NoMsg
        ELSE Msg("rejoin", fr.len)
    ELSE IF OFF_fopts + fr.foptslen > fr.len - 4 THEN NoMsg
    ELSE IF ~NetIdPass(nfilter, fr.netid) THEN NoMsg
    ELSE Msg(IF ftype \in {FRMTYPE_DAUP, FRMTYPE_DCUP} THEN "updf" ELSE "dndf", fr.len)

\* tcpb_encRawFrame: the binary codec's frame check and encoder. Returns the
\* protobuf message encoded, NoMsg when the function returns -1.
tcpb_encRawFrame(fr) ==
    LET ftype == FType(fr.mhdr) IN
    IF fr.len = 0 THEN NoMsg
    ELSE IF ftype = FRMTYPE_PROP \/ ftype = FRMTYPE_JACC THEN Msg("propdf", fr.len)
    ELSE IF ftype = FRMTYPE_JREQ THEN
        IF fr.len < 23 THEN NoMsg ELSE Msg("jreq", fr.len)
    ELSE IF ftype = FRMTYPE_DAUP \/ ftype = FRMTYPE_DCUP THEN
        IF fr.len < 12 THEN NoMsg
        ELSE IF fr.len < 8 + fr.foptslen + 4 THEN NoMsg
        ELSE Msg("updf", fr.len)
    ELSE Msg("propdf", fr.len)

\* PDU-only uplink: the whole frame in one pdu field, no check, no filter.
\* tcpb_encUpdfPduOnly leaves the pdu empty for a zero-length frame.
encUpdfPduOnly(fr) == Msg("updf-pdu", fr.len)

\* The format comparison done without regard to case.
tcpb_setFormat_nocase(format) ==
    IF format \in {"protobuf", "Protobuf"} THEN TCPROTO_PROTOBUF ELSE TCPROTO_JSON

\* tcpb_setFormat: protobuf only for the string "protobuf".
tcpb_setFormat(format) ==
    IF format = "protobuf" THEN TCPROTO_PROTOBUF ELSE TCPROTO_JSON

ProtocolFormats == {"protobuf", "json", "none"}

\* The frame check and the filters applied in PDU-only mode as well.
EncodeUplink_checked(fr, pduOnly, format, jfilter, nfilter) ==
    IF format = TCPROTO_PROTOBUF
    THEN IF tcpb_encRawFrame(fr) = NoMsg THEN NoMsg
         ELSE IF pduOnly THEN encUpdfPduOnly(fr) ELSE tcpb_encRawFrame(fr)
    ELSE IF s2e_parse_lora_frame(fr, jfilter, nfilter) = NoMsg THEN NoMsg
         ELSE IF pduOnly THEN encUpdfPduOnly(fr)
         ELSE s2e_parse_lora_frame(fr, jfilter, nfilter)

\* What s2e_flushRxjobs sends for one rx job.
EncodeUplink(fr, pduOnly, format, jfilter, nfilter) ==
    IF pduOnly THEN encUpdfPduOnly(fr)
    ELSE IF format = TCPROTO_PROTOBUF THEN tcpb_encRawFrame(fr)
    ELSE s2e_parse_lora_frame(fr, jfilter, nfilter)

InitRx ==
    /\ s2e_joineuiFilter = <<>>
    /\ s2e_netidFilter = AllNetIds
    /\ s2e_pduOnly = FALSE
    /\ tcpb_protocol_format = TCPROTO_JSON
    /\ rxframe = NoFrame
    /\ upmsg = NoMsg

\* router_config, as far as the uplink path reads it: JoinEui, NetID, pdu_only,
\* protocol_format. Handled between rx jobs (callbacks run to completion).
RouterConfigRx ==
    /\ rxframe = NoFrame
    /\ \E jf \in JoinEuiFilters, nf \in NetIdFilters, po \in BOOLEAN,
          pf \in ProtocolFormats :
            /\ s2e_joineuiFilter' = jf
            /\ s2e_netidFilter' = nf
            /\ s2e_pduOnly' = po
            /\ tcpb_protocol_format' = tcpb_setFormat(pf)
    /\ UNCHANGED <<rxframe, upmsg>>
    /\ UNCHANGED notRx

\* s2e_flushRxjobs: take the next rx job, check and encode it, send it or drop it.
s2e_flushRxjobs ==
    /\ rxframe = NoFrame
    /\ \E fr \in FrameInputs :
            /\ rxframe' = fr
            /\ upmsg' = EncodeUplink(fr, s2e_pduOnly, tcpb_protocol_format,
                                     s2e_joineuiFilter, s2e_netidFilter)
    /\ UNCHANGED <<s2e_joineuiFilter, s2e_netidFilter, s2e_pduOnly, tcpb_protocol_format>>
    /\ UNCHANGED notRx

\* The transport has taken the send buffer; the rx queue slot is free again.
RxjobDone ==
    /\ rxframe # NoFrame
    /\ rxframe' = NoFrame
    /\ upmsg' = NoMsg
    /\ UNCHANGED <<s2e_joineuiFilter, s2e_netidFilter, s2e_pduOnly, tcpb_protocol_format>>
    /\ UNCHANGED notRx

NextRx == RouterConfigRx \/ s2e_flushRxjobs \/ RxjobDone

\* ---- properties of the uplink path
\* An rx job has been taken and upmsg is what was sent for it.
Flushed == rxframe # NoFrame
RejoinLenOk(fr) == fr.len >= OFF_rejoin_minlen /\ fr.len <= OFF_rejoin_maxlen

C5_BadRejoinLenDropped ==
    (Flushed /\ ~s2e_pduOnly /\ IsRejoinType(rxframe.mhdr) /\ ~RejoinLenOk(rxframe))
        => upmsg = NoMsg

\* C6: a join request whose length is not exactly 23 produces no uplink
\* message, whichever codec is negotiated (PDU-only mode off).
C6_BadJreqLenDropped ==
    (Flushed /\ ~s2e_pduOnly /\ IsJreqType(rxframe.mhdr) /\ rxframe.len # OFF_jreq_len)
        => upmsg = NoMsg

\* C7: a frame whose MHdr major version is not v1.0 produces no uplink
\* message, for every frame type and codec (PDU-only mode off).
C7_BadMajorDropped ==
    (Flushed /\ ~s2e_pduOnly /\ Major(rxframe.mhdr) # MAJOR_V1) => upmsg = NoMsg

\* C8: a well-formed join request (type 0x00, v1.0, 23 bytes) is forwarded iff
\* the JoinEUI filter has no ranges or some range [lo, hi] holds its JoinEUI
\* (PDU-only mode off).
C8_JreqForwardedIffInRange ==
    (Flushed /\ ~s2e_pduOnly /\ rxframe.mhdr = FRMTYPE_JREQ /\ rxframe.len = OFF_jreq_len)
        => ((upmsg # NoMsg) <=>
              (Len(s2e_joineuiFilter) = 0
               \/ \E i \in 1..Len(s2e_joineuiFilter) :
                     /\ s2e_joineuiFilter[i].lo <= rxframe.joineui
                     /\ rxframe.joineui <= s2e_joineuiFilter[i].hi))

\* C23: in PDU-only mode every frame taken from the radio is sent to the LNS
\* as one updf whose pdu field holds the whole frame, whatever its length,
\* frame type, major version, JoinEUI or NetID and whatever the filters.
C23_PduOnlyForwardsEveryFrame ==
    (Flushed /\ s2e_pduOnly) => upmsg = Msg("updf-pdu", rxframe.len)

\* PDU-only mode has forwarded a join request that the JoinEUI filter would
\* have dropped.
C23_Witness ==
    /\ Flushed /\ s2e_pduOnly /\ upmsg = Msg("updf-pdu", rxframe.len)
    /\ rxframe.mhdr = FRMTYPE_JREQ /\ rxframe.len = OFF_jreq_len
    /\ ~JoinEuiPass(s2e_joineuiFilter, rxframe.joineui)

\* PDU-only mode has forwarded a frame of one byte whose major version is not
\* v1.0.
C23_WitnessMalformed ==
    /\ Flushed /\ s2e_pduOnly /\ upmsg = Msg("updf-pdu", rxframe.len)
    /\ Major(rxframe.mhdr) # MAJOR_V1 /\ rxframe.len = 1

(***************************************************************************)
(* DR tables of the session context                                        *)
(***************************************************************************)

\* ---- bounds of the DR model
MaxDefDR == 2      \* a DRs array defines entries at indices 0..MaxDefDR-1 at most
MaxDrArg == 17     \* DR indices looked up are 0..MaxDrArg

DR_CNT == 16

\* rps_t: spreading factor and bandwidth. rps_bw(RPS_FSK) is BW125, which is
\* why every 125 kHz test has to exclude RPS_FSK first.
rps_make(sf, bw) == [sf |-> sf, bw |-> bw]
rps_bw(rps) == rps.bw
RPS_ILLEGAL == rps_make("SFNIL", "BWNIL")
RPS_FSK     == rps_make("FSK", "BW125")

\* The entries a DRs array can hold: undefined, LoRa at 125, 250 and 500 kHz, FSK.
RpsValues == { RPS_ILLEGAL, rps_make("SF7", "BW125"), rps_make("SF7", "BW250"),
               rps_make("SF8", "BW500"), RPS_FSK }

DRIdx == 0..(DR_CNT - 1)
EmptyDrTable == [dr \in DRIdx |-> RPS_ILLEGAL]
\* Every table with arbitrary entries at 0..MaxDefDR-1 and no entry above.
RichDrTables ==
    { [dr \in DRIdx |-> IF dr < MaxDefDR THEN f[dr] ELSE RPS_ILLEGAL] :
        f \in [0..(MaxDefDR - 1) -> RpsValues] }
\* The tables with one and the same entry at 0..MaxDefDR-1.
UniformDrTables ==
    { [dr \in DRIdx |-> IF dr < MaxDefDR THEN v ELSE RPS_ILLEGAL] : v \in RpsValues }

NoQuery == [op |-> "none", a |-> 0, b |-> 0, rps |-> RPS_ILLEGAL, result |-> FALSE]

\* s2e_dr2rps: the legacy lookup, dr_defs only.
s2e_dr2rps(ctx, dr) ==
    IF dr >= DR_CNT THEN RPS_ILLEGAL ELSE ctx.dr_defs[dr]

\* Uplink lookup through the legacy table whatever the mode.
s2e_dr2rps_up_legacy(ctx, dr) ==
    IF dr >= DR_CNT THEN RPS_ILLEGAL ELSE ctx.dr_defs[dr]

s2e_dr2rps_up(ctx, dr) ==
    IF dr >= DR_CNT THEN RPS_ILLEGAL
    ELSE IF ctx.asymmetric_drs = 1 THEN ctx.dr_defs_up[dr]
    ELSE ctx.dr_defs[dr]

\* Downlink lookup through the uplink table in asymmetric mode.
s2e_dr2rps_dn_up(ctx, dr) ==
    IF dr >= DR_CNT THEN RPS_ILLEGAL
    ELSE IF ctx.asymmetric_drs = 1 THEN ctx.dr_defs_up[dr]
    ELSE ctx.dr_defs[dr]

s2e_dr2rps_dn(ctx, dr) ==
    IF dr >= DR_CNT THEN RPS_ILLEGAL
    ELSE IF ctx.asymmetric_drs = 1 THEN ctx.dr_defs_dn[dr]
    ELSE ctx.dr_defs[dr]

\* any125kHz: for (dr = minDR; dr <= maxDR; dr++) over the uplink lookup.
RECURSIVE any125kHz_from(_, _, _)
any125kHz_from(ctx, dr, maxDR) ==
    IF dr > maxDR THEN FALSE
    ELSE LET rps == s2e_dr2rps_up(ctx, dr) IN
         IF rps # RPS_FSK /\ rps_bw(rps) = "BW125" THEN TRUE
         ELSE any125kHz_from(ctx, dr + 1, maxDR)

any125kHz(ctx, minDR, maxDR) == any125kHz_from(ctx, minDR, maxDR)

\* The loop of hasFastLora over the legacy lookup whatever the mode.
RECURSIVE test_hasFastLora_buggy(_, _, _)
test_hasFastLora_buggy(ctx, dr, maxDR) ==
    IF dr > maxDR THEN FALSE
    ELSE LET rps == s2e_dr2rps(ctx, dr) IN
         IF rps_bw(rps) = "BW250" \/ rps_bw(rps) = "BW500" THEN TRUE
         ELSE test_hasFastLora_buggy(ctx, dr + 1, maxDR)

\* hasFastLora: for (dr = minDR; dr <= maxDR; dr++) over the uplink lookup,
\* true at the first entry whose bandwidth is BW250 or BW500.
RECURSIVE hasFastLora(_, _, _)
hasFastLora(ctx, dr, maxDR) ==
    IF dr > maxDR THEN FALSE
    ELSE LET rps == s2e_dr2rps_up(ctx, dr) IN
         IF rps_bw(rps) = "BW250" \/ rps_bw(rps) = "BW500" THEN TRUE
         ELSE hasFastLora(ctx, dr + 1, maxDR)

\* hasFSK: the same loop, true at the first entry equal to RPS_FSK.
RECURSIVE hasFSK(_, _, _)
hasFSK(ctx, dr, maxDR) ==
    IF dr > maxDR THEN FALSE
    ELSE IF s2e_dr2rps_up(ctx, dr) = RPS_FSK THEN TRUE
    ELSE hasFSK(ctx, dr + 1, maxDR)

\* The session context before router_config: no entry defined, symmetric.
s2e_ini == [dr_defs |-> EmptyDrTable, dr_defs_up |-> EmptyDrTable,
            dr_defs_dn |-> EmptyDrTable, asymmetric_drs |-> 0]

\* The DR fields of a router_config message, in the order of the message:
\* a sequence of [name, tab] with no name twice.
DrFieldNames == { "DRs", "DRs_up", "DRs_dn" }
DrFieldOrders ==
    { ns \in UNION { [1..n -> DrFieldNames] : n \in 0..3 } :
        \A i \in DOMAIN ns, j \in DOMAIN ns : i # j => ns[i] # ns[j] }
NoRc == [msg |-> <<>>, handled |-> FALSE, accepted |-> FALSE]
HasField(msg, n) == \E i \in DOMAIN msg : msg[i].name = n

\* The field switch with a J_DRs case that switches back to symmetric mode.
router_config_field_lastwins(ctx, f) ==
    IF f.name = "DRs" THEN [ctx EXCEPT !.dr_defs = f.tab, !.asymmetric_drs = 0]
    ELSE IF f.name = "DRs_up"
         THEN [ctx EXCEPT !.dr_defs_up = f.tab, !.asymmetric_drs = 1]
    ELSE [ctx EXCEPT !.dr_defs_dn = f.tab, !.asymmetric_drs = 1]

\* One case of the field switch of router_config.
router_config_field(ctx, f) ==
    IF f.name = "DRs" THEN [ctx EXCEPT !.dr_defs = f.tab]
    ELSE IF f.name = "DRs_up"
         THEN [ctx EXCEPT !.dr_defs_up = f.tab, !.asymmetric_drs = 1]
    ELSE [ctx EXCEPT !.dr_defs_dn = f.tab, !.asymmetric_drs = 1]

\* What router_config requires of the DR fields once the loop is through:
\* a DRs array when there is neither DRs_up nor DRs_dn. A message with one of
\* DRs_up and DRs_dn only passes: nothing looks for the other.
router_config_valid(msg) ==
    HasField(msg, "DRs") \/ HasField(msg, "DRs_up") \/ HasField(msg, "DRs_dn")

\* The field loop of router_config over the DR fields of the message.
RECURSIVE router_config_DRs(_, _)
router_config_DRs(ctx, msg) ==
    IF msg = <<>> THEN ctx
    ELSE router_config_DRs(router_config_field(ctx, Head(msg)), Tail(msg))

InitDR ==
    /\ s2ctx = s2e_ini
    /\ drq = NoQuery
    /\ rc = NoRc

\* router_config, as far as the DR tables go: the message carries any of DRs,
\* DRs_up, DRs_dn in any order; each field present is parsed into its table
\* and DRs_up / DRs_dn set the flag. A message that is not valid ends the
\* session.
RouterConfigDR ==
    /\ drq = NoQuery /\ rc = NoRc
    /\ \E ns \in DrFieldOrders, t \in UniformDrTables, up \in RichDrTables,
          dn \in UniformDrTables :
          LET tab(n) == IF n = "DRs" THEN t ELSE IF n = "DRs_up" THEN up ELSE dn
              msg == [i \in DOMAIN ns |-> [name |-> ns[i], tab |-> tab(ns[i])]]
          IN  /\ s2ctx' = router_config_DRs(s2ctx, msg)
              /\ rc' = [msg |-> msg, handled |-> TRUE,
                        accepted |-> router_config_valid(msg)]
    /\ UNCHANGED drq
    /\ UNCHANGED notDR

\* The session ends; the next one starts from a fresh context.
SessionCloseDR ==
    /\ drq = NoQuery /\ rc # NoRc
    /\ s2ctx' = s2e_ini
    /\ rc' = NoRc
    /\ UNCHANGED drq
    /\ UNCHANGED notDR

\* An uplink is received at DR dr: its radio parameters are looked up.
LookupUp ==
    /\ drq = NoQuery /\ rc.accepted
    /\ \E dr \in 0..MaxDrArg :
          drq' = [op |-> "up", a |-> dr, b |-> 0, rps |-> s2e_dr2rps_up(s2ctx, dr),
                  result |-> FALSE]
    /\ UNCHANGED <<s2ctx, rc>>
    /\ UNCHANGED notDR

\* A downlink is scheduled at DR dr: its radio parameters are looked up.
LookupDn ==
    /\ drq = NoQuery /\ rc.accepted
    /\ \E dr \in 0..MaxDrArg :
          drq' = [op |-> "dn", a |-> dr, b |-> 0, rps |-> s2e_dr2rps_dn(s2ctx, dr),
                  result |-> FALSE]
    /\ UNCHANGED <<s2ctx, rc>>
    /\ UNCHANGED notDR

\* Channel allocation asks whether an upchannel with DR range [minDR, maxDR]
\* carries 125 kHz LoRa.
CheckAny125kHz ==
    /\ drq = NoQuery /\ rc.accepted
    /\ \E minDR \in 0..MaxDefDR, maxDR \in 0..MaxDefDR :
          drq' = [op |-> "any125kHz", a |-> minDR, b |-> maxDR, rps |-> RPS_ILLEGAL,
                  result |-> any125kHz(s2ctx, minDR, maxDR)]
    /\ UNCHANGED <<s2ctx, rc>>
    /\ UNCHANGED notDR

\* Channel allocation asks whether the DR range of an upchannel carries
\* fast LoRa, which goes to the dedicated IF chain.
CheckHasFastLora ==
    /\ drq = NoQuery /\ rc.accepted
    /\ \E minDR \in 0..MaxDefDR, maxDR \in 0..MaxDefDR :
          drq' = [op |-> "hasFastLora", a |-> minDR, b |-> maxDR, rps |-> RPS_ILLEGAL,
                  result |-> hasFastLora(s2ctx, minDR, maxDR)]
    /\ UNCHANGED <<s2ctx, rc>>
    /\ UNCHANGED notDR

\* Channel allocation asks whether the DR range of an upchannel carries FSK.
CheckHasFSK ==
    /\ drq = NoQuery /\ rc.accepted
    /\ \E minDR \in 0..MaxDefDR, maxDR \in 0..MaxDefDR :
          drq' = [op |-> "hasFSK", a |-> minDR, b |-> maxDR, rps |-> RPS_ILLEGAL,
                  result |-> hasFSK(s2ctx, minDR, maxDR)]
    /\ UNCHANGED <<s2ctx, rc>>
    /\ UNCHANGED notDR

\* The caller has used the answer.
QueryDone ==
    /\ drq # NoQuery
    /\ drq' = NoQuery
    /\ UNCHANGED <<s2ctx, rc>>
    /\ UNCHANGED notDR

NextDR == RouterConfigDR \/ SessionCloseDR \/ LookupUp \/ LookupDn
          \/ CheckAny125kHz \/ CheckHasFastLora \/ CheckHasFSK \/ QueryDone

\* ---- properties of the DR tables
IsLora125(rps) == rps # RPS_ILLEGAL /\ rps # RPS_FSK /\ rps.bw = "BW125"

\* C12: a router_config with exactly one of DRs_up and DRs_dn is rejected,
\* and no accepted session is in asymmetric mode without both tables having
\* come in its router_config.
C12_OneSidedRejected ==
    /\ (rc.handled /\ (HasField(rc.msg, "DRs_up") # HasField(rc.msg, "DRs_dn")))
          => ~rc.accepted
    /\ (rc.accepted /\ s2ctx.asymmetric_drs = 1)
          => (HasField(rc.msg, "DRs_up") /\ HasField(rc.msg, "DRs_dn"))

\* The context the same message gives with its DRs field taken out.
WithoutDRs(msg) == SelectSeq(msg, LAMBDA f : f.name # "DRs")
CtxWithoutDRs == router_config_DRs(s2e_ini, WithoutDRs(rc.msg))

C13_WitnessNoDRs ==
    rc.handled /\ rc.msg = <<>> /\ ~rc.accepted

\* C9: in asymmetric mode any125kHz(minDR, maxDR) is true iff the uplink table
\* holds a 125 kHz LoRa entry at some index in [minDR, maxDR]; the legacy and
\* the downlink table have no part in the answer.
C9_Any125kHzUplinkOnly ==
    (drq.op = "any125kHz" /\ s2ctx.asymmetric_drs = 1)
        => (drq.result <=>
              \E dr \in DRIdx : /\ drq.a <= dr /\ dr <= drq.b
                                 /\ IsLora125(s2ctx.dr_defs_up[dr]))

\* Asymmetric mode, a 125 kHz uplink entry found in the range while the
\* legacy and the downlink table hold none there.
C9_Witness ==
    /\ drq.op = "any125kHz" /\ s2ctx.asymmetric_drs = 1 /\ drq.result
    /\ \A dr \in DRIdx : ~IsLora125(s2ctx.dr_defs[dr]) /\ ~IsLora125(s2ctx.dr_defs_dn[dr])

\* C11 as stated: in asymmetric mode hasFastLora is true iff the uplink table
\* holds a 500 kHz LoRa entry in the range, hasFSK iff it holds an FSK entry.
C11_Original ==
    /\ (drq.op = "hasFastLora" /\ s2ctx.asymmetric_drs = 1)
          => (drq.result <=>
                \E dr \in DRIdx : /\ drq.a <= dr /\ dr <= drq.b
                                   /\ rps_bw(s2ctx.dr_defs_up[dr]) = "BW500")
    /\ (drq.op = "hasFSK" /\ s2ctx.asymmetric_drs = 1)
          => (drq.result <=>
                \E dr \in DRIdx : /\ drq.a <= dr /\ dr <= drq.b
                                   /\ s2ctx.dr_defs_up[dr] = RPS_FSK)

\* C11: in asymmetric mode hasFastLora(minDR, maxDR) is true iff the uplink
\* table holds a LoRa entry of 250 kHz or of 500 kHz at some index in
\* [minDR, maxDR], and hasFSK(minDR, maxDR) iff it holds an FSK entry there;
\* the legacy and the downlink table have no part in either answer.
C11_FastLoraFskUplinkOnly ==
    /\ (drq.op = "hasFastLora" /\ s2ctx.asymmetric_drs = 1)
          => (drq.result <=>
                \E dr \in DRIdx : /\ drq.a <= dr /\ dr <= drq.b
                                   /\ rps_bw(s2ctx.dr_defs_up[dr]) \in {"BW250", "BW500"})
    /\ (drq.op = "hasFSK" /\ s2ctx.asymmetric_drs = 1)
          => (drq.result <=>
                \E dr \in DRIdx : /\ drq.a <= dr /\ dr <= drq.b
                                   /\ s2ctx.dr_defs_up[dr] = RPS_FSK)

\* Asymmetric mode, hasFastLora true on a 250 kHz uplink entry while the
\* uplink table has no 500 kHz entry and the legacy and the downlink table
\* hold no fast LoRa at all.
C11_Witness ==
    /\ drq.op = "hasFastLora" /\ s2ctx.asymmetric_drs = 1 /\ drq.result
    /\ \A dr \in DRIdx : /\ rps_bw(s2ctx.dr_defs_up[dr]) # "BW500"
                          /\ rps_bw(s2ctx.dr_defs[dr]) \notin {"BW250", "BW500"}
                          /\ rps_bw(s2ctx.dr_defs_dn[dr]) \notin {"BW250", "BW500"}

\* C10: below DR_CNT s2e_dr2rps_up gives the uplink-table entry and
\* s2e_dr2rps_dn the downlink-table entry in asymmetric mode, both the
\* legacy-table entry otherwise; at DR_CNT and above both give RPS_ILLEGAL.
C10_Dr2RpsTables ==
    /\ (drq.op \in {"up", "dn"} /\ drq.a >= DR_CNT) => drq.rps = RPS_ILLEGAL
    /\ (drq.op \in {"up", "dn"} /\ drq.a < DR_CNT /\ s2ctx.asymmetric_drs = 0)
          => drq.rps = s2ctx.dr_defs[drq.a]
    /\ (drq.op = "up" /\ drq.a < DR_CNT /\ s2ctx.asymmetric_drs = 1)
          => drq.rps = s2ctx.dr_defs_up[drq.a]
    /\ (drq.op = "dn" /\ drq.a < DR_CNT /\ s2ctx.asymmetric_drs = 1)
          => drq.rps = s2ctx.dr_defs_dn[drq.a]

\* Asymmetric mode, a downlink lookup below DR_CNT where the three tables
\* differ at the index, answered from the downlink table.
C10_Witness ==
    /\ drq.op = "dn" /\ drq.a < DR_CNT /\ s2ctx.asymmetric_drs = 1
    /\ s2ctx.dr_defs_dn[drq.a] # s2ctx.dr_defs_up[drq.a]
    /\ s2ctx.dr_defs_dn[drq.a] # s2ctx.dr_defs[drq.a]
    /\ s2ctx.dr_defs_up[drq.a] # s2ctx.dr_defs[drq.a]
    /\ drq.rps = s2ctx.dr_defs_dn[drq.a] /\ drq.rps # RPS_ILLEGAL

(***************************************************************************)
(* Downlink queue, radio hand-off, disconnect                              *)
(***************************************************************************)

\* ---- bounds of the TX model
MaxJobs     == 2    \* downlink jobs accepted over a run
MaxTime     == 1    \* the radio's time runs 0..MaxTime
MaxPrio     == 1    \* priorities are 0..MaxPrio
MaxSessions == 2    \* LNS sessions opened over a run

\* A downlink job: arrival number, device class, its class-specific time
\* (xtime for class A/C, gpstime for class B), priority, owning session.
NoJob == [id |-> 0, dC |-> "A", xtime |-> 0, gpstime |-> 0, prio |-> 0, sess |-> 0]
NoEvent == [ev |-> "none", job |-> NoJob, rest |-> {}, prev |-> 0, sess |-> 0, live |-> TRUE]

\* Effective transmit time: from gpstime for class B, from xtime otherwise.
\* The model runs GPS time and xtime on the same scale.
txtime(job) == IF job.dC = "B" THEN job.gpstime ELSE job.xtime

\* Queue order: effective transmit time, then priority (higher first), then
\* arrival.
txq_before(j, k) ==
    \/ txtime(j) < txtime(k)
    \/ txtime(j) = txtime(k) /\ j.prio > k.prio
    \/ txtime(j) = txtime(k) /\ j.prio = k.prio /\ j.id < k.id

\* Insert that keeps arrival order.
txq_append(q, j) == Append(q, j)

\* Insert: behind every job that goes before the new one.
txq_insert(q, j) ==
    SelectSeq(q, LAMBDA k : txq_before(k, j)) \o <<j>>
        \o SelectSeq(q, LAMBDA k : ~txq_before(k, j))

\* drop-by-id
txq_drop(q, id) == SelectSeq(q, LAMBDA k : k.id # id)

\* Teardown that leaves the queue as it is.
txq_keep(q) == q

\* Teardown of the queue on disconnect: every pending job is freed.
txq_cancel(q) == <<>>

\* Teardown of the timers on disconnect: those of the session are cleared.
timers_clear(ts, sess) == { t \in ts : t.sess # sess }

JobIds(q) == { q[i].id : i \in 1..Len(q) }
JobSet(q) == { q[i] : i \in 1..Len(q) }

\* The queue timer is armed and the head of the queue has reached its time.
TxqDue ==
    /\ \E t \in timers : t.kind = "txq"
    /\ Len(txq) > 0
    /\ txtime(Head(txq)) <= now

InitTx ==
    /\ txq = <<>> /\ now = 0 /\ session = 0 /\ nsessions = 0 /\ njobs = 0
    /\ timers = {} /\ txlog = {} /\ lastev = NoEvent /\ lasttx = 0 /\ cancelled = {}

\* Transport connected, session opened: its timesync timer is armed.
Connect ==
    /\ session = 0 /\ nsessions < MaxSessions
    /\ nsessions' = nsessions + 1
    /\ session' = nsessions + 1
    /\ timers' = timers \cup {[kind |-> "timesync", sess |-> nsessions + 1]}
    /\ lastev' = NoEvent
    /\ UNCHANGED <<txq, now, njobs, txlog, lasttx, cancelled>>
    /\ UNCHANGED notTx

\* dnmsg / dnsched: a job is built and inserted, the queue timer armed.
AddTxjob ==
    /\ session # 0 /\ njobs < MaxJobs
    /\ \E dC \in {"A", "B"}, t \in now..MaxTime, prio \in 0..MaxPrio :
          LET job == [id |-> njobs + 1, dC |-> dC,
                      xtime |-> IF dC = "B" THEN 0 ELSE t,
                      gpstime |-> IF dC = "B" THEN t ELSE 0,
                      prio |-> prio, sess |-> session]
          IN /\ txq' = txq_insert(txq, job)
             /\ lastev' = NoEvent
    /\ njobs' = njobs + 1
    /\ timers' = timers \cup {[kind |-> "txq", sess |-> session]}
    /\ UNCHANGED <<now, session, nsessions, txlog, lasttx, cancelled>>
    /\ UNCHANGED notTx

\* The LNS rescinds a pending job.
DropTxjob ==
    /\ session # 0
    /\ \E id \in JobIds(txq) :
          /\ txq' = txq_drop(txq, id)
          /\ lastev' = NoEvent
    /\ UNCHANGED <<now, session, nsessions, njobs, timers, txlog, lasttx, cancelled>>
    /\ UNCHANGED notTx

\* The queue timer fires with the head of the queue due: pop-due-earliest,
\* the job goes to the radio.
HandOff ==
    /\ TxqDue
    /\ txlog' = txlog \cup {Head(txq).id}
    /\ txq' = Tail(txq)
    /\ lastev' = [ev |-> "tx", job |-> Head(txq), rest |-> JobSet(Tail(txq)),
                  prev |-> lasttx, sess |-> Head(txq).sess,
                  live |-> Head(txq).sess = session]
    /\ lasttx' = txtime(Head(txq))
    /\ UNCHANGED <<now, session, nsessions, njobs, timers, cancelled>>
    /\ UNCHANGED notTx

\* A periodic timer of a session fires and re-arms itself.
TimerFire ==
    /\ \E t \in timers :
          /\ t.kind = "timesync"
          /\ lastev' = [NoEvent EXCEPT !.ev = "timer", !.sess = t.sess,
                                       !.live = (t.sess = session)]
    /\ UNCHANGED <<txq, now, session, nsessions, njobs, timers, txlog, lasttx, cancelled>>
    /\ UNCHANGED notTx

\* Time passes while no armed job is due.
Tick ==
    /\ now < MaxTime
    /\ ~TxqDue
    /\ now' = now + 1
    /\ lastev' = NoEvent
    /\ UNCHANGED <<txq, session, nsessions, njobs, timers, txlog, lasttx, cancelled>>
    /\ UNCHANGED notTx

\* Transport disconnect: session teardown.
Disconnect ==
    /\ session # 0
    /\ cancelled' = cancelled \cup JobIds(txq)
    /\ txq' = txq_cancel(txq)
    /\ timers' = timers_clear(timers, session)
    /\ session' = 0
    /\ lastev' = NoEvent
    /\ UNCHANGED <<now, nsessions, njobs, txlog, lasttx>>
    /\ UNCHANGED notTx

NextTx == Connect \/ AddTxjob \/ DropTxjob \/ HandOff \/ TimerFire \/ Tick
          \/ Disconnect

\* ---- properties of the TX pipeline
\* C1: a job handed to the radio goes before every job still pending, by
\* effective transmit time, then priority (higher first), then arrival; and
\* its effective transmit time is not below that of the job handed over before it.
C1_HandOffOrder ==
    /\ lastev.ev = "tx" => \A k \in lastev.rest : txq_before(lastev.job, k)
    /\ lastev.ev = "tx" => lastev.prev <= txtime(lastev.job)

\* A hand-off of a job that arrived after a job still pending and is ahead of
\* it by priority at equal effective transmit time, one of the two timed by
\* xtime and the other by gpstime.
C1_Witness ==
    /\ lastev.ev = "tx"
    /\ \E k \in lastev.rest :
          /\ k.id < lastev.job.id /\ txtime(k) = txtime(lastev.job)
          /\ k.prio < lastev.job.prio /\ k.dC # lastev.job.dC

\* C3: no job that was pending at a disconnect is handed to the radio
\* afterwards, no timer of a closed session stays armed, and no timer fires
\* for a session that is not the open one.
C3_DisconnectCancels ==
    /\ txlog \cap cancelled = {}
    /\ \A t \in timers : t.sess = session
    /\ lastev.ev = "timer" => lastev.live

\* After a disconnect that cancelled a pending job, the next session hands a
\* job of its own to the radio, its own timers armed.
C3_Witness ==
    /\ cancelled # {} /\ session = 2
    /\ lastev.ev = "tx" /\ lastev.job.sess = 2 /\ lastev.live
    /\ \E t \in timers : t.kind = "timesync"

(***************************************************************************)
(* router_config: sx130xconf_parse_setup and sx130xconf_start              *)
(***************************************************************************)

\* ---- bounds of the configuration model
MaxChan == 2       \* channel plans a router_config can carry are 1..MaxChan

\* Initial value of the global TX_DWELLTIME_LBT.
TX_DWELLTIME_DEFAULT == 4000

\* The values of tx_dwelltime_lbt a configuration can carry.
DwellValues == {1000, 2000}

\* The sx130x_conf of a router_config: the channel plan (radio and IF chain
\* settings), whether the region mandates CCA (cca_region # 0), and the
\* optional fields pps and tx_dwelltime_lbt.
Sx130xConfs ==
    { [chan |-> c, cca |-> l, has_pps |-> hp, pps |-> pv, has_dwell |-> hd, dwell |-> d] :
        c \in 1..MaxChan, l \in BOOLEAN, hp \in BOOLEAN, pv \in BOOLEAN,
        hd \in BOOLEAN, d \in DwellValues \cup {0} }
ConfInputs ==
    { m \in Sx130xConfs : /\ (m.has_dwell <=> m.dwell # 0)
                          /\ (~m.has_pps => ~m.pps) }
NoConf == [chan |-> 0, cca |-> FALSE, has_pps |-> FALSE, pps |-> FALSE,
           has_dwell |-> FALSE, dwell |-> 0]

\* station.conf of the gateway: PPS capture on, no tx_dwelltime_lbt.
StationConf == [chan |-> 0, cca |-> FALSE, has_pps |-> TRUE, pps |-> TRUE,
                has_dwell |-> FALSE, dwell |-> 0]

\* The struct after memset and the non-zero defaults.
ZeroConf == [chan |-> 0, pps |-> FALSE, lbt_enable |-> FALSE, transmit_time_ms |-> 0]

\* parse_sx130x_conf on the struct: each field present is assigned.
parse_sx130x_conf(conf, m) ==
    [conf EXCEPT !.chan = IF m.chan # 0 THEN m.chan ELSE @,
                 !.pps = IF m.has_pps THEN m.pps ELSE @]

\* parse_sx130x_conf on the global: tx_dwelltime_lbt is assigned if present.
parse_dwelltime(g, m) == IF m.has_dwell THEN m.dwell ELSE g

\* sx130xconf_parse_setup: memset, defaults, station.conf, then the LNS JSON.
sx130xconf_parse_setup(m) == parse_sx130x_conf(parse_sx130x_conf(ZeroConf, StationConf), m)

\* The global after sx130xconf_parse_setup: both layers may assign it.
dwelltime_after_setup(g, m) == parse_dwelltime(parse_dwelltime(g, StationConf), m)

\* setup_LBT: the LBT channels get the global as their transmit time.
setup_LBT(conf, g) == [conf EXCEPT !.lbt_enable = TRUE, !.transmit_time_ms = g]

\* The steps of the handler, in order; a failure stops it at that step.
CfgSteps == <<"parse", "board", "rx", "lbt", "start", "gps">>
StepNo(step) == CHOOSE i \in 1..Len(CfgSteps) : CfgSteps[i] = step
\* "done": no step fails.
FailPoints == {"parse", "board", "rx", "lbt", "start", "gps", "done"}
Reached(failat, step) == failat = "done" \/ StepNo(step) < StepNo(failat)

NoHal == [started |-> FALSE, chan |-> 0, pps |-> FALSE, lbt_enable |-> FALSE,
          transmit_time_ms |-> 0]

\* sx130xconf_start against the HAL: lgw_stop, lgw_rxrf/rxif_setconf,
\* setup_LBT with lgw_sx1261_setconf when the region has CCA, lgw_start, then the
\* PPS enable. The HAL keeps what an earlier setconf gave it.
sx130xconf_start(h, conf, m, g, failat) ==
    LET lbt == setup_LBT(conf, g) IN
    [started |-> Reached(failat, "start"),
     chan |-> IF Reached(failat, "rx") THEN conf.chan ELSE h.chan,
     lbt_enable |-> IF m.cca /\ Reached(failat, "lbt") THEN lbt.lbt_enable
                    ELSE h.lbt_enable,
     transmit_time_ms |-> IF m.cca /\ Reached(failat, "lbt") THEN lbt.transmit_time_ms
                          ELSE h.transmit_time_ms,
     pps |-> IF Reached(failat, "gps") THEN conf.pps ELSE h.pps]

InitCfg ==
    /\ TX_DWELLTIME_LBT = TX_DWELLTIME_DEFAULT
    /\ sx130xconf = ZeroConf
    /\ hal = NoHal
    /\ cfgsession = "up"
    /\ lastcfg = [conf |-> NoConf, ok |-> FALSE]

\* router_config on an open session: parse the layers, start the
\* concentrator; any failure terminates the session.
RouterConfig ==
    /\ cfgsession = "up"
    /\ \E m \in ConfInputs, failat \in FailPoints :
          /\ ~m.cca => failat # "lbt"
          /\ TX_DWELLTIME_LBT' = dwelltime_after_setup(TX_DWELLTIME_LBT, m)
          /\ sx130xconf' =
                IF m.cca /\ Reached(failat, "lbt")
                THEN setup_LBT(sx130xconf_parse_setup(m),
                               dwelltime_after_setup(TX_DWELLTIME_LBT, m))
                ELSE sx130xconf_parse_setup(m)
          /\ hal' = IF failat = "parse" THEN hal
                    ELSE sx130xconf_start(hal, sx130xconf_parse_setup(m), m,
                                          dwelltime_after_setup(TX_DWELLTIME_LBT, m),
                                          failat)
          /\ cfgsession' = IF failat = "done" THEN "up" ELSE "terminated"
          /\ lastcfg' = [conf |-> m, ok |-> failat = "done"]
    /\ UNCHANGED notCfg

\* The transport reconnects: a new session in the same process.
Reconnect ==
    /\ cfgsession = "terminated"
    /\ cfgsession' = "up"
    /\ lastcfg' = [conf |-> NoConf, ok |-> FALSE]
    /\ UNCHANGED <<TX_DWELLTIME_LBT, sx130xconf, hal>>
    /\ UNCHANGED notCfg

\* The LNS closes the session and the transport reconnects.
Reopen ==
    /\ cfgsession = "up" /\ lastcfg.ok
    /\ lastcfg' = [conf |-> NoConf, ok |-> FALSE]
    /\ UNCHANGED <<TX_DWELLTIME_LBT, sx130xconf, hal, cfgsession>>
    /\ UNCHANGED notCfg

NextCfg == RouterConfig \/ Reconnect \/ Reopen

\* ---- properties of router_config handling
\* The radio setup a router_config asks for, station.conf underneath it.
ConfigOf(m) ==
    [chan |-> m.chan,
     pps |-> IF m.has_pps THEN m.pps ELSE StationConf.pps,
     lbt_enable |-> m.cca,
     transmit_time_ms |-> IF m.has_dwell THEN m.dwell ELSE TX_DWELLTIME_DEFAULT]

\* C2: after a router_config has been handled, the session is terminated or the
\* radio runs with exactly the setup of that message: its channel plan, its PPS
\* setting and, where the region has CCA, LBT with its transmit time limit.
C2_RouterConfigAtomic ==
    (cfgsession = "up" /\ lastcfg.conf # NoConf) =>
        /\ lastcfg.ok /\ hal.started
        /\ hal.chan = ConfigOf(lastcfg.conf).chan
        /\ hal.pps = ConfigOf(lastcfg.conf).pps
        /\ lastcfg.conf.cca =>
              /\ hal.lbt_enable
              /\ hal.transmit_time_ms = ConfigOf(lastcfg.conf).transmit_time_ms

(***************************************************************************)
(* Duty-cycle ledger (EU868 bands)                                         *)
(***************************************************************************)

\* Time is counted in units of 100 ms.

\* ---- bounds of the duty-cycle model
MaxDcTx == 3       \* downlinks admitted over a session

\* Rate divisors of the bands.
DC_DECI  == 10
DC_CENTI == 100
DC_MILLI == 1000

\* The window the duty cycle is measured over: 1 h.
DC_WINDOW == 36000

\* EU868 bands by frequency (kHz).
freq2band(freq) ==
    IF freq >= 863000 /\ freq < 865000 THEN "K"
    ELSE IF freq >= 865000 /\ freq < 868000 THEN "L"
    ELSE IF freq >= 868000 /\ freq <= 868600 THEN "M"
    ELSE IF freq >= 868700 /\ freq <= 869200 THEN "N"
    ELSE IF freq >= 869400 /\ freq <= 869650 THEN "P"
    ELSE "Q"

DcBands == { "K", "L", "M", "N", "P", "Q" }

\* Band K with the divisor of a 1% band.
dcrate_centi(band) ==
    IF band = "P" THEN DC_DECI ELSE DC_CENTI

dcrate(band) ==
    IF band \in {"K", "N"} THEN DC_MILLI
    ELSE IF band = "P" THEN DC_DECI
    ELSE DC_CENTI

\* Downlink frequencies of the model, one in each of K, L, P (kHz), and the
\* airtimes of a short and of a long frame (1 s, 2.8 s).
DcFreqs  == { 863500, 867100, 869525 }
AirTimes == { 10, 28 }
\* The transmit time of a downlink is that of the band's last transmission
\* plus its airtime times one of these factors.
DcGaps == { 9, 10, 11, 99, 100, 101, 999, 1000, 1001 }

NoTx    == [band |-> "none", t |-> 0, airtime |-> 0]
NoDcReq == [band |-> "none", txtime |-> 0, airtime |-> 0, prev |-> NoTx,
            admitted |-> FALSE]

\* The last downlink admitted in a band, NoTx if none.
RECURSIVE dc_last(_, _)
dc_last(log, band) ==
    IF log = <<>> THEN NoTx
    ELSE IF log[Len(log)].band = band THEN log[Len(log)]
    ELSE dc_last(SubSeq(log, 1, Len(log) - 1), band)

\* s2e_canTx for EU868: the band is free at the job's transmit time.
s2e_canTxEU868(bands, enabled, band, t) ==
    ~enabled \/ t >= bands[band]

\* update_DC: the band is blocked for airtime times divisor from the start
\* of the transmission.
update_DC(bands, band, t, airtime) ==
    [bands EXCEPT ![band] = t + airtime * dcrate(band)]

InitDC ==
    /\ duty_cycle_enabled = TRUE
    /\ dc_eu868bands = [b \in DcBands |-> 0]
    /\ dclog = <<>>
    /\ dcreq = NoDcReq

\* A session starts: router_config switches duty-cycle enforcement on or
\* off (nodc / duty_cycle_enabled), all bands are free.
RouterConfigDC ==
    /\ dclog # <<>> \/ duty_cycle_enabled
    /\ \E en \in BOOLEAN : duty_cycle_enabled' = en
    /\ dc_eu868bands' = [b \in DcBands |-> 0]
    /\ dclog' = <<>>
    /\ dcreq' = NoDcReq
    /\ UNCHANGED notDC

\* A downlink comes up for transmission: it is admitted if its band is free
\* at its transmit time, and the band's ledger entry is moved on; else it
\* is refused and the ledger stays.
TxAdmission ==
    /\ Len(dclog) < MaxDcTx
    /\ \E freq \in DcFreqs, airtime \in AirTimes, gap \in DcGaps :
          LET band   == freq2band(freq)
              prev   == dc_last(dclog, band)
              txt == prev.t + gap * prev.airtime
              ok     == s2e_canTxEU868(dc_eu868bands, duty_cycle_enabled, band, txt)
          IN  /\ dcreq' = [band |-> band, txtime |-> txt, airtime |-> airtime,
                           prev |-> prev, admitted |-> ok]
              /\ IF ok
                 THEN /\ dclog' = Append(dclog, [band |-> band, t |-> txt,
                                                 airtime |-> airtime])
                      /\ dc_eu868bands' =
                            IF duty_cycle_enabled
                            THEN update_DC(dc_eu868bands, band, txt, airtime)
                            ELSE dc_eu868bands
                 ELSE UNCHANGED <<dclog, dc_eu868bands>>
    /\ UNCHANGED duty_cycle_enabled
    /\ UNCHANGED notDC

NextDC == RouterConfigDC \/ TxAdmission

\* ---- properties of the duty-cycle ledger

\* Airtime of the band's admitted downlinks that falls into [w, w + DC_WINDOW].
Max2(a, b) == IF a > b THEN a ELSE b
Min2(a, b) == IF a < b THEN a ELSE b
RECURSIVE AirtimeIn(_, _, _)
AirtimeIn(log, band, w) ==
    IF log = <<>> THEN 0
    ELSE LET tx == Head(log)
             ov == Min2(tx.t + tx.airtime, w + DC_WINDOW) - Max2(tx.t, w)
         IN  (IF tx.band = band /\ ov > 0 THEN ov ELSE 0)
             + AirtimeIn(Tail(log), band, w)

\* The windows worth looking at: those that begin with a transmission and
\* those that end with one.
WindowStarts ==
    { dclog[i].t : i \in DOMAIN dclog }
        \cup { dclog[i].t + dclog[i].airtime - DC_WINDOW : i \in DOMAIN dclog }

\* C14: with duty-cycle enforcement on, in every band the airtime of the
\* admitted downlinks inside any window of one hour is at most the window
\* divided by the band's divisor.
C14_SlidingWindowCap ==
    duty_cycle_enabled =>
        \A band \in DcBands, w \in WindowStarts :
            AirtimeIn(dclog, band, w) * dcrate(band) <= DC_WINDOW

\* C15: in band K with enforcement on, a downlink whose transmit time is 999
\* airtimes after the start of the band's last transmission is refused, one
\* whose transmit time is 1001 airtimes after it is admitted.
C15_BandKBlockedForAirtimeTimesDivisor ==
    (duty_cycle_enabled /\ dcreq.band = "K" /\ dcreq.prev # NoTx)
        => /\ dcreq.txtime = dcreq.prev.t + 999 * dcreq.prev.airtime => ~dcreq.admitted
           /\ dcreq.txtime = dcreq.prev.t + 1001 * dcreq.prev.airtime => dcreq.admitted

\* Band K, enforcement on: the second downlink of the band comes 1001
\* airtimes after the start of the first and is admitted.
C15_Witness ==
    /\ duty_cycle_enabled /\ dcreq.band = "K" /\ dcreq.prev # NoTx
    /\ dcreq.txtime = dcreq.prev.t + 1001 * dcreq.prev.airtime
    /\ dcreq.admitted
    /\ Len(dclog) = 2

(***************************************************************************)
(* Hand-over of a downlink to the HAL and its confirmation                 *)
(***************************************************************************)

\* ---- bounds of the hand-over model
MaxHalJobs == 2    \* downlinks handed over in a run
MaxCount   == 2    \* count_us of a packet and the busy intervals lie in 0..MaxCount

HalFreqs == { 923200000, 923400000 }
HalJobIds == 1..MaxHalJobs

\* cca_msg.infos: a list of [freq, beg, end], cut off by an entry of freq 0.
CcaInfos ==
    { [freq |-> f, beg |-> b, end |-> e] :
        f \in HalFreqs \cup {0}, b \in 0..MaxCount, e \in 0..MaxCount }
CcaMsgs == { <<>> } \cup { <<i>> : i \in { c \in CcaInfos : c.beg <= c.end } }

\* cca: 0 (FALSE) if txtime lies in a busy interval of txfreq, else 1.
RECURSIVE cca(_, _, _)
cca(infos, t, txfreq) ==
    IF infos = <<>> THEN TRUE
    ELSE IF Head(infos).freq = 0 THEN TRUE
    ELSE IF txfreq = Head(infos).freq /\ t >= Head(infos).beg
            /\ t <= Head(infos).end THEN FALSE
    ELSE cca(Tail(infos), t, txfreq)

NoPkt == [freq_hz |-> 0, count_us |-> 0, size |-> 0]

\* lgw_send: what it returns and what it leaves in txbeg, txend, tx_pkt.
\* txbeg and txend are set before the channel is looked at.
lgw_send(pkt, old_pkt, infos, sock) ==
    LET beg == pkt.count_us
        end == beg + pkt.size
    IN  IF ~cca(infos, beg, pkt.freq_hz)
        THEN [ret |-> "LGW_LBT_ISSUE", txbeg |-> beg, txend |-> end, tx_pkt |-> old_pkt]
        ELSE IF ~sock
        THEN [ret |-> "LGW_HAL_ERROR", txbeg |-> beg, txend |-> end, tx_pkt |-> pkt]
        ELSE [ret |-> "LGW_HAL_SUCCESS", txbeg |-> beg, txend |-> end, tx_pkt |-> pkt]

\* Per downlink: calls of lgw_send for it, the last return value, dntxed
\* messages and failure messages sent to the LNS for it.
NoJobSt == [sends |-> 0, ret |-> "none", dntxed |-> 0, failmsgs |-> 0]

InitHal ==
    /\ cca_msg = <<>>
    /\ aio = TRUE
    /\ txbeg = 0 /\ txend = 0
    /\ tx_pkt = NoPkt
    /\ txjob = 0
    /\ jobst = [id \in HalJobIds |-> NoJobSt]
    /\ halnjobs = 0

\* read_socket: the harness sends a CCA message.
ReadCcaMsg ==
    /\ aio /\ halnjobs < MaxHalJobs
    /\ \E m \in CcaMsgs : m # cca_msg /\ cca_msg' = m
    /\ UNCHANGED <<aio, txbeg, txend, tx_pkt, txjob, jobst, halnjobs>>
    /\ UNCHANGED notHal

\* The simulation socket closes, or try_connecting opens it again.
SocketToggle ==
    /\ halnjobs < MaxHalJobs
    /\ aio' = ~aio
    /\ UNCHANGED <<cca_msg, txbeg, txend, tx_pkt, txjob, jobst, halnjobs>>
    /\ UNCHANGED notHal

\* The next downlink is due and the radio is free: the packet is given to
\* lgw_send. On LGW_HAL_SUCCESS the job is on air. On any other return value
\* the job is dropped; the station has no message to the LNS for that.
TxSubmit ==
    /\ txjob = 0 /\ halnjobs < MaxHalJobs
    /\ \E f \in HalFreqs, c \in 0..MaxCount :
          LET id  == halnjobs + 1
              pkt == [freq_hz |-> f, count_us |-> c, size |-> 1]
              r   == lgw_send(pkt, tx_pkt, cca_msg, aio)
          IN  /\ txbeg' = r.txbeg /\ txend' = r.txend /\ tx_pkt' = r.tx_pkt
              /\ jobst' = [jobst EXCEPT ![id].sends = @ + 1, ![id].ret = r.ret]
              /\ txjob' = IF r.ret = "LGW_HAL_SUCCESS" THEN id ELSE 0
              /\ halnjobs' = id
    /\ UNCHANGED <<cca_msg, aio>>
    /\ UNCHANGED notHal

\* lgw_status reports TX_FREE for the job on air: dntxed goes to the LNS.
TxDone ==
    /\ txjob # 0
    /\ jobst' = [jobst EXCEPT ![txjob].dntxed = @ + 1]
    /\ txjob' = 0
    /\ UNCHANGED <<cca_msg, aio, txbeg, txend, tx_pkt, halnjobs>>
    /\ UNCHANGED notHal

NextHal == ReadCcaMsg \/ SocketToggle \/ TxSubmit \/ TxDone

\* ---- properties of the hand-over

\* C16: for a downlink that lgw_send refused, with LGW_LBT_ISSUE on a busy
\* channel or with LGW_HAL_ERROR, exactly one failure confirmation has gone
\* to the LNS once the station is through with it, and lgw_send was called
\* for it once only.
C16_OneFailureConfirmation ==
    \A id \in HalJobIds :
        jobst[id].ret \in {"LGW_LBT_ISSUE", "LGW_HAL_ERROR"}
            => (jobst[id].failmsgs = 1 /\ jobst[id].sends = 1)

(***************************************************************************)
(* setup_LBT at concentrator start (SX1302 build)                          *)
(***************************************************************************)

\* ---- bounds of the LBT model
MaxIfChain == 3    \* IF chains 1..MaxIfChain-1 are multi-SF, the last is LoRa std

LGW_LBT_CHANNEL_NB_MAX == 16

\* The regions with CCA.
CcaRegions == { "AS923-1", "AS923-2", "AS923-3", "AS923-4", "KR920" }

\* rfconf: two radios at one centre frequency, radio 0 enabled.
RfFreq == 923300000
RfConfs == { <<[enable |-> TRUE, freq_hz |-> RfFreq], [enable |-> e, freq_hz |-> RfFreq]>> :
               e \in BOOLEAN }
IfOffsets == { -100000, 100000, 300000 }

\* ifconf: per IF chain enable, rf_chain (1 or 2 here), frequency offset and
\* bandwidth in kHz. The bandwidth field of a multi-SF chain is 0, that of
\* the LoRa std chain is the bandwidth of its channel.
IfChainIdx == 1..MaxIfChain
IsMultiSF(ifi) == ifi < MaxIfChain
IfConfs ==
    { c \in [IfChainIdx -> [enable : BOOLEAN, rf_chain : {1, 2}, freq_hz : IfOffsets,
                            bandwidth : {0, 125, 250, 500}]] :
        /\ \A i \in IfChainIdx : IsMultiSF(i) <=> c[i].bandwidth = 0
        /\ \A i \in IfChainIdx : ~c[i].enable => (c[i].rf_chain = 1 /\ c[i].freq_hz = 100000)
        /\ \A i, j \in IfChainIdx :
              (i < j /\ IsMultiSF(j) /\ c[i].enable /\ c[j].enable)
                  => c[i].freq_hz < c[j].freq_hz }

\* The loop of setup_LBT over the IF chains from ifi on: an enabled chain
\* on an enabled radio with bw < BW_500KHZ is appended, as long as there is
\* room.
RECURSIVE lbt_channels(_, _, _, _)
lbt_channels(ifconf, rfconf, ifi, chans) ==
    IF ifi > MaxIfChain THEN chans
    ELSE IF ~ifconf[ifi].enable THEN lbt_channels(ifconf, rfconf, ifi + 1, chans)
    ELSE IF ~(Len(chans) < LGW_LBT_CHANNEL_NB_MAX)
         THEN lbt_channels(ifconf, rfconf, ifi + 1, chans)
    ELSE IF ~rfconf[ifconf[ifi].rf_chain].enable
         THEN lbt_channels(ifconf, rfconf, ifi + 1, chans)
    ELSE IF ifconf[ifi].bandwidth < 500
         THEN lbt_channels(ifconf, rfconf, ifi + 1,
                  Append(chans, [freq_hz |-> rfconf[ifconf[ifi].rf_chain].freq_hz
                                               + ifconf[ifi].freq_hz,
                                 bandwidth |-> ifconf[ifi].bandwidth,
                                 scan_time_us |-> 0, transmit_time_ms |-> 0]))
    ELSE lbt_channels(ifconf, rfconf, ifi + 1, chans)

NoLbtConf == [enable |-> FALSE, rssi_target |-> 0, channels |-> <<>>]

\* setup_LBT: region parameters for AS923-1 and KR920 and failure for any
\* other region; the channel list derived when there is none; scan time and
\* transmit time on every channel; then lgw_sx1261_setconf.
setup_LBT_sx1261(lbt_conf, rfconf, ifconf, cca_region, dwell, halok) ==
    IF cca_region \notin {"AS923-1", "KR920"}
    THEN [ret |-> 0, lbt_conf |-> lbt_conf, hal |-> NoLbtConf]
    ELSE LET rssi  == IF cca_region = "AS923-1" THEN -80 ELSE -67
             chans == IF lbt_conf.channels = <<>>
                      THEN lbt_channels(ifconf, rfconf, 1, <<>>)
                      ELSE lbt_conf.channels
             conf  == [enable |-> TRUE, rssi_target |-> rssi,
                       channels |-> [i \in DOMAIN chans |->
                                       [chans[i] EXCEPT !.scan_time_us = 5000,
                                                        !.transmit_time_ms = dwell]]]
         IN  [ret |-> IF halok THEN 1 ELSE 0, lbt_conf |-> conf, hal |-> conf]

NoLbtRun == [cca_region |-> "none", rfconf |-> <<>>, ifconf |-> <<>>, halok |-> FALSE,
             ret |-> 0, lbt_conf |-> NoLbtConf, hal |-> NoLbtConf, started |-> FALSE]

InitLbt == lbtrun = NoLbtRun

\* sx130xconf_start in a region with CCA: after the radios and IF chains
\* are set, setup_LBT; if it returns 0 the start fails, else lgw_start.
\* The struct comes from sx130xconf_parse_setup with no LBT channel in it.
StartWithLbt ==
    /\ lbtrun = NoLbtRun
    /\ \E region \in CcaRegions, rfconf \in RfConfs, ifconf \in IfConfs,
          halok \in BOOLEAN :
          LET r == setup_LBT_sx1261(NoLbtConf, rfconf, ifconf, region,
                                    TX_DWELLTIME_DEFAULT, halok)
          IN  lbtrun' = [cca_region |-> region, rfconf |-> rfconf, ifconf |-> ifconf,
                         halok |-> halok, ret |-> r.ret, lbt_conf |-> r.lbt_conf,
                         hal |-> r.hal, started |-> r.ret = 1]
    /\ UNCHANGED notLbt

\* The session ends and the concentrator is stopped.
StopLbt ==
    /\ lbtrun # NoLbtRun
    /\ lbtrun' = NoLbtRun
    /\ UNCHANGED notLbt

NextLbt == StartWithLbt \/ StopLbt

\* ---- properties of the LBT setup

\* C17: in every region with CCA, when the HAL takes the configuration,
\* setup_LBT succeeds, LBT is enabled in the HAL and the concentrator starts.
C17_LbtSetUpInEveryCcaRegion ==
    (lbtrun.cca_region \in CcaRegions /\ lbtrun.halok)
        => (lbtrun.ret = 1 /\ lbtrun.hal.enable /\ lbtrun.started)

\* The uplink channels of the run that LBT has to cover: enabled IF chains on
\* an enabled radio of at most 250 kHz (a multi-SF chain is 125 kHz).
ChanBw(ifi) == IF IsMultiSF(ifi) THEN 125 ELSE lbtrun.ifconf[ifi].bandwidth
LbtFreqsExpected ==
    { lbtrun.rfconf[lbtrun.ifconf[i].rf_chain].freq_hz + lbtrun.ifconf[i].freq_hz :
        i \in { k \in IfChainIdx : /\ lbtrun.ifconf[k].enable
                                    /\ lbtrun.rfconf[lbtrun.ifconf[k].rf_chain].enable
                                    /\ ChanBw(k) <= 250 } }

\* C18: in AS923-1 with no LBT channels from the LNS, the list given to the
\* HAL has exactly one entry for each distinct frequency of an enabled uplink
\* channel of at most 250 kHz, no other entry and no frequency twice, each
\* with a scan time of 5000 us, and the RSSI target is -80 dBm.
C18_DerivedLbtChannels ==
    (lbtrun.cca_region = "AS923-1" /\ lbtrun.halok)
        => LET chans == lbtrun.hal.channels IN
           /\ { chans[i].freq_hz : i \in DOMAIN chans } = LbtFreqsExpected
           /\ Len(chans) = Cardinality(LbtFreqsExpected)
           /\ \A i \in DOMAIN chans : chans[i].scan_time_us = 5000
           /\ lbtrun.hal.rssi_target = -80

(***************************************************************************)
(* PPS loss recovery (SX1302/SX1303)                                       *)
(***************************************************************************)

\* Time is counted in ms.
NO_PPS_RESET_THRES      == 90     \* seconds without PPS before a reset
NO_PPS_RESET_FAIL_THRES == 6      \* resets before the process gives up
NO_PPS_RESET_RETRY      == 5      \* seconds between resets
PPS_LOOP_MS             == 128    \* period of the PPS check

NoOutage == [len |-> 0, toggles |-> 0]

\* A reset at every check once the threshold is passed.
pps_reset_due_noretry(t, resets) ==
    t >= NO_PPS_RESET_THRES * 1000

\* A reset is due: no valid PPS for NO_PPS_RESET_THRES and, after a reset,
\* NO_PPS_RESET_RETRY since.
pps_reset_due(t, resets) ==
    /\ t >= NO_PPS_RESET_THRES * 1000
    /\ IF resets = <<>> THEN TRUE
       ELSE t - resets[Len(resets)] >= NO_PPS_RESET_RETRY * 1000

\* The failure counter left as it is by a valid PPS.
pps_valid_counter_kept(cnt) == cnt

\* The failure counter when a valid PPS comes in.
pps_valid_counter(cnt) == 0

InitPps ==
    /\ ppsfeed = TRUE
    /\ nopps = 0
    /\ no_pps_resets = 0
    /\ toggles = <<>>
    /\ lastoutage = NoOutage
    /\ exited = FALSE

\* The PPS check with a pulse latched since the last check: the PPS state
\* is updated and the failure counter cleared.
PpsValid ==
    /\ ~exited /\ ppsfeed
    /\ nopps' = 0
    /\ no_pps_resets' = pps_valid_counter(no_pps_resets)
    /\ toggles' = <<>>
    /\ lastoutage' = IF nopps > 0
                     THEN [len |-> nopps + PPS_LOOP_MS, toggles |-> Len(toggles)]
                     ELSE lastoutage
    /\ UNCHANGED <<ppsfeed, exited>>
    /\ UNCHANGED notPps

\* The PPS check with no pulse latched: once a reset is due, the process
\* exits if NO_PPS_RESET_FAIL_THRES resets have not helped, else it toggles
\* GPS-enable off and on and counts the reset.
PpsMissing ==
    /\ ~exited /\ ~ppsfeed
    /\ nopps' = nopps + PPS_LOOP_MS
    /\ IF pps_reset_due(nopps + PPS_LOOP_MS, toggles)
       THEN IF no_pps_resets >= NO_PPS_RESET_FAIL_THRES
            THEN /\ exited' = TRUE
                 /\ UNCHANGED <<no_pps_resets, toggles>>
            ELSE /\ no_pps_resets' = no_pps_resets + 1
                 /\ toggles' = Append(toggles, nopps + PPS_LOOP_MS)
                 /\ UNCHANGED exited
       ELSE UNCHANGED <<no_pps_resets, toggles, exited>>
    /\ UNCHANGED <<ppsfeed, lastoutage>>
    /\ UNCHANGED notPps

\* The PPS signal goes away, or comes back.
PpsLost ==
    /\ ~exited /\ ppsfeed /\ nopps = 0
    /\ ppsfeed' = FALSE
    /\ lastoutage' = NoOutage
    /\ UNCHANGED <<nopps, no_pps_resets, toggles, exited>>
    /\ UNCHANGED notPps

PpsBack ==
    /\ ~exited /\ ~ppsfeed
    /\ ppsfeed' = TRUE
    /\ UNCHANGED <<nopps, no_pps_resets, toggles, lastoutage, exited>>
    /\ UNCHANGED notPps

\* The supervisor restarts the process.
Restart ==
    /\ exited
    /\ ppsfeed' \in BOOLEAN
    /\ nopps' = 0 /\ no_pps_resets' = 0 /\ toggles' = <<>>
    /\ lastoutage' = NoOutage
    /\ exited' = FALSE
    /\ UNCHANGED notPps

NextPps == PpsValid \/ PpsMissing \/ PpsLost \/ PpsBack \/ Restart

\* ---- properties of the PPS recovery

\* C19: after an outage of 95 s (the valid PPS is seen at the first check 95 s
\* or more after the last one) GPS-enable was toggled exactly once during the
\* outage, and whenever the PPS is valid the failure counter is zero.
C19_OneToggleIn95s ==
    /\ (lastoutage.len >= 95000 /\ lastoutage.len < 95000 + PPS_LOOP_MS)
          => lastoutage.toggles = 1
    /\ (ppsfeed /\ nopps = 0 /\ lastoutage # NoOutage) => no_pps_resets = 0

\* An outage of 95 s is over, with one toggle in it and the counter cleared.
C19_Witness ==
    /\ lastoutage.len >= 95000 /\ lastoutage.len < 95000 + PPS_LOOP_MS
    /\ lastoutage.toggles = 1 /\ no_pps_resets = 0 /\ nopps = 0

\* C20: the first toggle comes at the first check 90 s or more after the last
\* valid PPS and not before; each further one 5 s after the one before, to
\* the period of the check; none is overdue; and the process has exited only
\* after six toggles, and does exit 5 s after the sixth.
C20_PpsRecoverySchedule ==
    /\ \A k \in DOMAIN toggles :
          IF k = 1
          THEN /\ toggles[k] >= NO_PPS_RESET_THRES * 1000
               /\ toggles[k] < NO_PPS_RESET_THRES * 1000 + PPS_LOOP_MS
          ELSE /\ toggles[k] - toggles[k - 1] >= NO_PPS_RESET_RETRY * 1000
               /\ toggles[k] - toggles[k - 1] < NO_PPS_RESET_RETRY * 1000 + PPS_LOOP_MS
    /\ nopps >= NO_PPS_RESET_THRES * 1000 => toggles # <<>>
    /\ (toggles # <<>> /\ ~exited)
          => nopps - toggles[Len(toggles)] < NO_PPS_RESET_RETRY * 1000
    /\ exited => Len(toggles) = 6
    /\ Len(toggles) <= 6

\* The process has exited after six toggles, 5 s apart, from 90 s on.
C20_Witness ==
    /\ exited /\ Len(toggles) = 6
    /\ toggles[6] - toggles[1] >= 5 * NO_PPS_RESET_RETRY * 1000

(***************************************************************************)
(* Drift recovery                                                          *)
(***************************************************************************)

QUICK_RETRIES == 3

\* Drift tolerances in ppm; the widest is the one a widening sets.
DriftThresholds == {20, 50, 100, 200}
MaxDriftThres   == CHOOSE t \in DriftThresholds : \A u \in DriftThresholds : u <= t

\* Drift samples in ppm (magnitudes).
DriftSamples == {10, 40, 80, 150, 300, 500}

NoDrift == [ppm |-> 0, rejected |-> FALSE]

\* The tolerance is widened at or above 2*QUICK_RETRIES rejections.
drift_widen_due_ge(cnt) == cnt >= 2 * QUICK_RETRIES

\* The tolerance is widened above 2*QUICK_RETRIES rejections.
drift_widen_due(cnt) == cnt > 2 * QUICK_RETRIES

\* The process gives up at or above 5*QUICK_RETRIES rejections.
drift_exit_due_ge(cnt) == cnt >= 5 * QUICK_RETRIES

\* The process gives up above 5*QUICK_RETRIES rejections.
drift_exit_due(cnt) == cnt > 5 * QUICK_RETRIES

InitDrift ==
    /\ excessive_drift_cnt = 0
    /\ drift_thres = MaxDriftThres
    /\ widenings = 0
    /\ lastdrift = NoDrift
    /\ drift_exited = FALSE

\* A drift sample within the tolerance: the run of rejections is over, and
\* the tolerance follows the drift statistics.
DriftAccepted ==
    \E d \in DriftSamples, th \in DriftThresholds :
        /\ ~drift_exited
        /\ d <= drift_thres
        /\ d <= th
        /\ excessive_drift_cnt' = 0
        /\ widenings' = 0
        /\ drift_thres' = th
        /\ lastdrift' = [ppm |-> d, rejected |-> FALSE]
        /\ UNCHANGED drift_exited
        /\ UNCHANGED notDrift

\* A drift sample beyond the tolerance: it is rejected and counted; the
\* tolerance is widened once and the process exits as the count requires.
DriftRejected ==
    \E d \in DriftSamples :
        /\ ~drift_exited
        /\ d > drift_thres
        /\ excessive_drift_cnt' = excessive_drift_cnt + 1
        /\ IF drift_widen_due(excessive_drift_cnt + 1) /\ widenings = 0
           THEN /\ drift_thres' = MaxDriftThres
                /\ widenings' = widenings + 1
           ELSE UNCHANGED <<drift_thres, widenings>>
        /\ drift_exited' = drift_exit_due(excessive_drift_cnt + 1)
        /\ lastdrift' = [ppm |-> d, rejected |-> TRUE]
        /\ UNCHANGED notDrift

\* The supervisor restarts the process.
DriftRestart ==
    /\ drift_exited
    /\ excessive_drift_cnt' = 0
    /\ drift_thres' = MaxDriftThres
    /\ widenings' = 0
    /\ lastdrift' = NoDrift
    /\ drift_exited' = FALSE
    /\ UNCHANGED notDrift

NextDrift == DriftAccepted \/ DriftRejected \/ DriftRestart

C21_WitnessSix ==
    /\ excessive_drift_cnt = 6 /\ widenings = 0 /\ drift_thres < MaxDriftThres

(***************************************************************************)
(* PDU-only mode: configuration and the encoding of the pdu field          *)
(***************************************************************************)

MaxPduLen == 3     \* frames of the PDU model have 0..MaxPduLen bytes

PDU_ENCODING_HEX    == "hex"
PDU_ENCODING_BASE64 == "base64"

PduByteValues == {0, 64, 255}
RECURSIVE PduSeqs(_)
PduSeqs(n) ==
    IF n = 0 THEN { <<>> }
    ELSE PduSeqs(n - 1) \cup
         { Append(q, b) : q \in { x \in PduSeqs(n - 1) : Len(x) = n - 1 },
                          b \in PduByteValues }
PduBytes == PduSeqs(MaxPduLen)

HexChars == << "0", "1", "2", "3", "4", "5", "6", "7",
               "8", "9", "A", "B", "C", "D", "E", "F" >>
B64Chars == << "A", "B", "C", "D", "E", "F", "G", "H", "I", "J", "K", "L", "M",
               "N", "O", "P", "Q", "R", "S", "T", "U", "V", "W", "X", "Y", "Z",
               "a", "b", "c", "d", "e", "f", "g", "h", "i", "j", "k", "l", "m",
               "n", "o", "p", "q", "r", "s", "t", "u", "v", "w", "x", "y", "z",
               "0", "1", "2", "3", "4", "5", "6", "7", "8", "9", "+", "/" >>

\* Value of a character in an alphabet, -1 if it is not in it.
CharVal(chars, c) ==
    IF \E i \in 1..Len(chars) : chars[i] = c
    THEN (CHOOSE i \in 1..Len(chars) : chars[i] = c) - 1
    ELSE -1

DecodeError == [ok |-> FALSE, bytes |-> <<>>]
Decoded(b)  == [ok |-> TRUE, bytes |-> b]

\* Hex text of a byte string, two digits per byte.
RECURSIVE encHex(_)
encHex(b) ==
    IF b = <<>> THEN <<>>
    ELSE << HexChars[(b[1] \div 16) + 1], HexChars[(b[1] % 16) + 1] >> \o encHex(Tail(b))

\* uj_hexstr: the bytes of a hex text; error on an odd length or a character
\* that is no hex digit.
RECURSIVE uj_hexstr(_)
uj_hexstr(t) ==
    IF t = <<>> THEN Decoded(<<>>)
    ELSE IF Len(t) = 1 THEN DecodeError
    ELSE IF CharVal(HexChars, t[1]) < 0 THEN DecodeError
    ELSE IF CharVal(HexChars, t[2]) < 0 THEN DecodeError
    ELSE LET rest == uj_hexstr(SubSeq(t, 3, Len(t))) IN
         IF ~rest.ok THEN DecodeError
         ELSE Decoded(<< CharVal(HexChars, t[1]) * 16 + CharVal(HexChars, t[2]) >>
                      \o rest.bytes)

\* uj_encBase64: base64 text of a byte string, padded with "=".
RECURSIVE uj_encBase64(_)
uj_encBase64(b) ==
    IF b = <<>> THEN <<>>
    ELSE IF Len(b) = 1 THEN
        << B64Chars[(b[1] \div 4) + 1], B64Chars[((b[1] % 4) * 16) + 1], "=", "=" >>
    ELSE IF Len(b) = 2 THEN
        << B64Chars[(b[1] \div 4) + 1],
           B64Chars[((b[1] % 4) * 16 + (b[2] \div 16)) + 1],
           B64Chars[((b[2] % 16) * 4) + 1], "=" >>
    ELSE
        << B64Chars[(b[1] \div 4) + 1],
           B64Chars[((b[1] % 4) * 16 + (b[2] \div 16)) + 1],
           B64Chars[((b[2] % 16) * 4 + (b[3] \div 64)) + 1],
           B64Chars[(b[3] % 64) + 1] >> \o uj_encBase64(SubSeq(b, 4, Len(b)))

\* uj_base64str: the bytes of a base64 text; error on a length that is no
\* multiple of four, a character outside the alphabet, or padding anywhere
\* but at the end.
RECURSIVE uj_base64str(_)
uj_base64str(t) ==
    IF t = <<>> THEN Decoded(<<>>)
    ELSE IF Len(t) < 4 THEN DecodeError
    ELSE LET v1 == CharVal(B64Chars, t[1])
             v2 == CharVal(B64Chars, t[2])
             v3 == CharVal(B64Chars, t[3])
             v4 == CharVal(B64Chars, t[4])
         IN
         IF v1 < 0 THEN DecodeError
         ELSE IF v2 < 0 THEN DecodeError
         ELSE IF t[3] = "=" THEN
             IF t[4] = "=" /\ Len(t) = 4
             THEN Decoded(<< v1 * 4 + (v2 \div 16) >>)
             ELSE DecodeError
         ELSE IF v3 < 0 THEN DecodeError
         ELSE IF t[4] = "=" THEN
             IF Len(t) = 4
             THEN Decoded(<< v1 * 4 + (v2 \div 16), (v2 % 16) * 16 + (v3 \div 4) >>)
             ELSE DecodeError
         ELSE IF v4 < 0 THEN DecodeError
         ELSE LET rest == uj_base64str(SubSeq(t, 5, Len(t))) IN
              IF ~rest.ok THEN DecodeError
              ELSE Decoded(<< v1 * 4 + (v2 \div 16), (v2 % 16) * 16 + (v3 \div 4),
                              (v3 % 4) * 64 + v4 >> \o rest.bytes)

\* The pdu field of an uplink or of a downlink of the LNS.
encPdu(enc, b) ==
    IF enc = PDU_ENCODING_BASE64 THEN uj_encBase64(b) ELSE encHex(b)

\* The pdu field of a downlink read as hex whatever the session encoding.
decPdu_hex(enc, t) == uj_hexstr(t)

\* The pdu field of a downlink read with the session encoding.
decPdu(enc, t) ==
    IF enc = PDU_ENCODING_BASE64 THEN uj_base64str(t) ELSE uj_hexstr(t)

\* router_config as far as PDU-only mode goes: each field absent or given.
PduOnlyFields     == {"absent", "true", "false"}
PduEncodingFields == {"absent", "hex", "base64", "b64"}
PduRcs == [pdu_only : PduOnlyFields, pdu_encoding : PduEncodingFields]
NoPduRc == [pdu_only |-> "absent", pdu_encoding |-> "absent"]

\* What a router_config asks for.
RcPduOnly(m)     == m.pdu_only = "true"
RcPduEncoding(m) ==
    IF m.pdu_encoding \in {"base64", "b64"} THEN PDU_ENCODING_BASE64
    ELSE PDU_ENCODING_HEX

\* router_config handling that leaves a setting alone when its field is absent.
router_config_pdu_keep(old, m) ==
    [pduOnly     |-> IF m.pdu_only = "absent" THEN old.pduOnly ELSE RcPduOnly(m),
     pduEncoding |-> IF m.pdu_encoding = "absent" THEN old.pduEncoding
                     ELSE RcPduEncoding(m)]

\* router_config handling: both settings go back to their defaults, then the
\* fields of the message are applied.
router_config_pdu(old, m) ==
    LET reset == [pduOnly |-> FALSE, pduEncoding |-> PDU_ENCODING_HEX]
        po    == IF m.pdu_only = "absent" THEN reset.pduOnly ELSE m.pdu_only = "true"
        pe    == IF m.pdu_encoding = "absent" THEN reset.pduEncoding
                 ELSE IF m.pdu_encoding \in {"base64", "b64"} THEN PDU_ENCODING_BASE64
                 ELSE PDU_ENCODING_HEX
    IN [pduOnly |-> po, pduEncoding |-> pe]

NoPduUp == [sent |-> FALSE, frame |-> <<>>, pdu |-> <<>>]
NoPduDn == [rcvd |-> FALSE, lns |-> <<>>, pdu |-> <<>>, accepted |-> FALSE, tx |-> <<>>]

InitPdu ==
    /\ s2e_pduEncoding = PDU_ENCODING_HEX
    /\ pdurc = NoPduRc
    /\ pdurcprev = NoPduRc
    /\ pduup = NoPduUp
    /\ pdudn = NoPduDn

PduIdle == pduup = NoPduUp /\ pdudn = NoPduDn

\* router_config with its pdu_only and pdu_encoding fields.
RouterConfigPdu ==
    \E m \in PduRcs :
        LET new == router_config_pdu([pduOnly |-> s2e_pduOnly,
                                      pduEncoding |-> s2e_pduEncoding], m) IN
        /\ PduIdle
        /\ s2e_pduOnly' = new.pduOnly
        /\ s2e_pduEncoding' = new.pduEncoding
        /\ pdurc' = m
        /\ pdurcprev' = pdurc
        /\ UNCHANGED <<pduup, pdudn>>
        /\ UNCHANGED notPdu

\* An uplink in PDU-only mode: the frame goes out in the pdu field.
PduUplink ==
    \E fr \in PduBytes :
        /\ PduIdle /\ s2e_pduOnly
        /\ pduup' = [sent |-> TRUE, frame |-> fr, pdu |-> encPdu(s2e_pduEncoding, fr)]
        /\ UNCHANGED <<s2e_pduOnly, s2e_pduEncoding, pdurc, pdurcprev, pdudn>>
        /\ UNCHANGED notPdu

\* A downlink: the LNS encodes the frame as its router_config said, the
\* station decodes the pdu field; a field that does not decode is refused.
PduDownlink ==
    \E b \in PduBytes :
        LET t == encPdu(RcPduEncoding(pdurc), b)
            d == decPdu(s2e_pduEncoding, t)
        IN
        /\ PduIdle
        /\ pdudn' = [rcvd |-> TRUE, lns |-> b, pdu |-> t, accepted |-> d.ok,
                     tx |-> d.bytes]
        /\ UNCHANGED <<s2e_pduOnly, s2e_pduEncoding, pdurc, pdurcprev, pduup>>
        /\ UNCHANGED notPdu

\* The message has been dealt with.
PduDone ==
    /\ ~PduIdle
    /\ pduup' = NoPduUp
    /\ pdudn' = NoPduDn
    /\ UNCHANGED <<s2e_pduOnly, s2e_pduEncoding, pdurc, pdurcprev>>
    /\ UNCHANGED notPdu

NextPdu == RouterConfigPdu \/ PduUplink \/ PduDownlink \/ PduDone

\* ---- properties of PDU-only mode

C24_LastRouterConfigDecides ==
    /\ s2e_pduOnly = (pdurc.pdu_only = "true")
    /\ s2e_pduEncoding = (IF pdurc.pdu_encoding \in {"base64", "b64"}
                          THEN PDU_ENCODING_BASE64 ELSE PDU_ENCODING_HEX)

\* A router_config without the two fields has followed one that turned
\* PDU-only mode on with base64: the mode is off and the encoding hex.
C24_Witness ==
    /\ pdurcprev = [pdu_only |-> "true", pdu_encoding |-> "base64"]
    /\ pdurc = [pdu_only |-> "absent", pdu_encoding |-> "absent"]
    /\ ~s2e_pduOnly /\ s2e_pduEncoding = PDU_ENCODING_HEX

(***************************************************************************)
(* Negotiation of the protocol format                                      *)
(***************************************************************************)

\* Arguments of tcpb_setFormat: "none" stands for NULL (no protocol_format
\* field), the others are strings as the LNS may send them.
FormatArgs == ProtocolFormats \cup {"Protobuf", "protobuf ", "proto", "", "unknown"}

\* tcpb_ini
tcpb_ini == TCPROTO_JSON

\* A new session that keeps the format of the one before.
tc_connect_format_stale(old) == old

\* A new session starts from tcpb_ini.
tc_connect_format(old) == tcpb_ini

\* Messages of the session. Those with a binary encoding are the data-plane
\* messages; discovery, version and router_config exist as JSON only.
ControlKinds  == {"router-info", "version", "router_config"}
DataUpKinds   == {"updf", "jreq", "propdf", "dntxed", "timesync"}
DataDnKinds   == {"dnmsg", "dnsched", "timesync"}
NoTcMsg == [kind |-> "none", dir |-> "none", wire |-> "none"]
TcMsg(k, d, w) == [kind |-> k, dir |-> d, wire |-> w]

\* The wire format of a data-plane message.
Wire(format) == IF format = TCPROTO_PROTOBUF THEN "binary" ELSE "json"

InitNego ==
    /\ tcstate = "disconnected"
    /\ fmtarg = "unset"
    /\ fmtbefore = TCPROTO_JSON
    /\ prevfmt = TCPROTO_JSON
    /\ tcmsg = NoTcMsg

\* Discovery: the router-info query and its reply, JSON.
TcDiscover ==
    /\ tcstate = "disconnected"
    /\ tcstate' = "discovered"
    /\ tcmsg' = TcMsg("router-info", "up", "json")
    /\ UNCHANGED <<tcpb_protocol_format, fmtarg, fmtbefore, prevfmt>>
    /\ UNCHANGED notNego

\* The transport connects: the session starts and version is sent, JSON.
TcConnect ==
    /\ tcstate = "discovered"
    /\ tcstate' = "connected"
    /\ tcpb_protocol_format' = tc_connect_format(tcpb_protocol_format)
    /\ tcmsg' = TcMsg("version", "up", "json")
    /\ UNCHANGED <<fmtarg, fmtbefore, prevfmt>>
    /\ UNCHANGED notNego

\* router_config, JSON, with its protocol_format field or without.
RouterConfigNego ==
    \E f \in FormatArgs :
        /\ tcstate \in {"connected", "configured"}
        /\ tcstate' = "configured"
        /\ tcpb_protocol_format' = tcpb_setFormat(f)
        /\ fmtarg' = f
        /\ fmtbefore' = tcpb_protocol_format
        /\ tcmsg' = TcMsg("router_config", "dn", "json")
        /\ UNCHANGED prevfmt
        /\ UNCHANGED notNego

\* A data-plane message of the station, in the format in force.
DataUp ==
    \E k \in DataUpKinds :
        /\ tcstate = "configured"
        /\ tcmsg' = TcMsg(k, "up", Wire(tcpb_protocol_format))
        /\ UNCHANGED <<tcstate, tcpb_protocol_format, fmtarg, fmtbefore, prevfmt>>
        /\ UNCHANGED notNego

\* A data-plane message of the LNS, in the format it selected.
DataDn ==
    \E k \in DataDnKinds :
        /\ tcstate = "configured"
        /\ tcmsg' = TcMsg(k, "dn", Wire(tcpb_setFormat(fmtarg)))
        /\ UNCHANGED <<tcstate, tcpb_protocol_format, fmtarg, fmtbefore, prevfmt>>
        /\ UNCHANGED notNego

\* The transport disconnects; the format variable stays as it is.
TcDisconnect ==
    /\ tcstate \in {"connected", "configured"}
    /\ tcstate' = "disconnected"
    /\ prevfmt' = tcpb_protocol_format
    /\ fmtarg' = "unset"
    /\ fmtbefore' = TCPROTO_JSON
    /\ tcmsg' = NoTcMsg
    /\ UNCHANGED tcpb_protocol_format
    /\ UNCHANGED notNego

NextNego == TcDiscover \/ TcConnect \/ RouterConfigNego \/ DataUp \/ DataDn
            \/ TcDisconnect

\* ---- properties of the negotiation

\* C25: discovery, version and router_config are JSON; a binary message is a
\* data-plane message of a session whose router_config selected protobuf; a
\* session that has no router_config yet is on JSON, whatever the format of
\* the session before it.
C25_BinaryOnlyAfterRouterConfig ==
    /\ tcmsg.kind \in ControlKinds => tcmsg.wire = "json"
    /\ tcmsg.wire = "binary"
          => /\ tcstate = "configured" /\ fmtarg = "protobuf"
             /\ tcmsg.kind \in DataUpKinds \cup DataDnKinds
    /\ (tcstate = "configured" /\ tcmsg.kind \in DataUpKinds \cup DataDnKinds)
          => (tcmsg.wire = "binary" <=> fmtarg = "protobuf")
    /\ tcstate = "connected" => tcpb_protocol_format = TCPROTO_JSON

\* A session after one that ended on protobuf has sent version and is on JSON.
C25_Witness ==
    /\ prevfmt = TCPROTO_PROTOBUF /\ tcstate = "connected"
    /\ tcmsg = TcMsg("version", "up", "json")
    /\ tcpb_protocol_format = TCPROTO_JSON

\* A binary uplink in a session after one that ended on protobuf as well.
C25_WitnessBinary ==
    /\ prevfmt = TCPROTO_PROTOBUF /\ tcstate = "configured"
    /\ tcmsg = TcMsg("updf", "up", "binary")

\* C26: the format is JSON as long as no tcpb_setFormat has selected
\* protobuf; after tcpb_setFormat(f) it is protobuf iff f is "protobuf",
\* whatever it was before.
C26_SetFormatExact ==
    /\ (fmtarg = "unset" /\ prevfmt = TCPROTO_JSON)
          => tcpb_protocol_format = TCPROTO_JSON
    /\ fmtarg # "unset"
          => (tcpb_protocol_format = TCPROTO_PROTOBUF <=> fmtarg = "protobuf")

\* tcpb_setFormat("Protobuf") called with protobuf in force has set JSON.
C26_Witness ==
    /\ fmtarg = "Protobuf" /\ fmtbefore = TCPROTO_PROTOBUF
    /\ tcpb_protocol_format = TCPROTO_JSON

\* tcpb_setFormat(NULL) called with protobuf in force has set JSON.
C26_WitnessNull ==
    /\ fmtarg = "none" /\ fmtbefore = TCPROTO_PROTOBUF
    /\ tcpb_protocol_format = TCPROTO_JSON

(***************************************************************************)
(* Binary codec: protobuf wire format, encoders and tcpb_decode            *)
(***************************************************************************)

\* Integer fields of the model hold values of -2^31 .. 2^31-1; 64-bit fields
\* are encoded in their full width and hold values of that range.

\* ---- wire format primitives (pb_encode / pb_decode of nanopb)

\* Horner sum of digits d[1] + base*d[2] + ...
RECURSIVE pb_horner(_, _)
pb_horner(d, base) ==
    IF d = <<>> THEN 0
    ELSE IF \A i \in 1..Len(d) : d[i] = 0 THEN 0
    ELSE d[1] + base * pb_horner(Tail(d), base)

\* Varint of a value of zero or more: 7 bits a byte, low group first.
RECURSIVE pb_varint_nonneg(_)
pb_varint_nonneg(v) ==
    IF v < 128 THEN << v >>
    ELSE << 128 + (v % 128) >> \o pb_varint_nonneg(v \div 128)

\* Varint of a negative value: the 64-bit two's complement, ten bytes.
RECURSIVE pb_varint_neg(_, _)
pb_varint_neg(v, n) ==
    IF n = 1 THEN << 1 >>
    ELSE << 128 + (v % 128) >> \o pb_varint_neg(v \div 128, n - 1)

pb_enc_varint(v) ==
    IF v >= 0 THEN pb_varint_nonneg(v) ELSE pb_varint_neg(v, 10)

\* Little-endian two's complement of n bytes.
RECURSIVE pb_enc_fixed(_, _)
pb_enc_fixed(v, n) ==
    IF n = 0 THEN <<>> ELSE << v % 256 >> \o pb_enc_fixed(v \div 256, n - 1)

\* The value of n little-endian bytes, read as a signed number.
pb_dec_fixed(b) ==
    IF b[Len(b)] >= 128
    THEN -1 - pb_horner([i \in 1..Len(b) |-> 255 - b[i]], 256)
    ELSE pb_horner(b, 256)

PbError == [ok |-> FALSE, val |-> 0, rest |-> <<>>]
PbMin(S) == CHOOSE i \in S : \A j \in S : i <= j
PbMax(S) == CHOOSE i \in S : \A j \in S : j <= i

\* pb_decode_varint: value and the bytes after it; error when the input ends
\* within the varint or the varint is longer than ten bytes.
pb_varint_val(g) ==
    IF Len(g) = 10 /\ g[10] >= 1
    THEN -1 - pb_horner([i \in 1..9 |-> 127 - g[i]], 128)
    ELSE pb_horner(g, 128)
pb_varint_take(b, n) ==
    [ok |-> TRUE, val |-> pb_varint_val([i \in 1..n |-> b[i] % 128]),
     rest |-> SubSeq(b, n + 1, Len(b))]
pb_varint_ends(b, ends) ==
    IF ends = {} THEN PbError ELSE pb_varint_take(b, PbMin(ends))
pb_dec_varint(b) ==
    pb_varint_ends(b, { i \in 1..Len(b) : i <= 10 /\ b[i] < 128 })

PbWt == [varint |-> 0, fixed64 |-> 1, string |-> 2, fixed32 |-> 5]

pb_key(num, wt) == pb_enc_varint(num * 8 + wt)

PbFieldsError == [ok |-> FALSE, fs |-> <<>>]
PbField(num, wt, v, b) == [num |-> num, wt |-> wt, v |-> v, b |-> b]

\* The fields of a message on the wire, in order: number, wire type, value
\* (varint, fixed) or bytes (length-delimited). Error on a truncated field, a
\* field number of zero or a wire type that does not exist.
RECURSIVE pb_fields(_)
pb_fields_cons(f, more) ==
    IF ~more.ok THEN PbFieldsError ELSE [ok |-> TRUE, fs |-> << f >> \o more.fs]
pb_field_varint(num, v) ==
    IF ~v.ok THEN PbFieldsError
    ELSE pb_fields_cons(PbField(num, PbWt.varint, v.val, <<>>), pb_fields(v.rest))
pb_field_fixed(num, wt, r, n) ==
    IF Len(r) < n THEN PbFieldsError
    ELSE pb_fields_cons(PbField(num, wt, pb_dec_fixed(SubSeq(r, 1, n)), <<>>),
                        pb_fields(SubSeq(r, n + 1, Len(r))))
pb_field_string(num, l) ==
    IF ~l.ok THEN PbFieldsError
    ELSE IF l.val < 0 \/ Len(l.rest) < l.val THEN PbFieldsError
    ELSE pb_fields_cons(PbField(num, PbWt.string, 0, SubSeq(l.rest, 1, l.val)),
                        pb_fields(SubSeq(l.rest, l.val + 1, Len(l.rest))))
pb_field_at(num, wt, r) ==
    IF num = 0 THEN PbFieldsError
    ELSE IF wt = PbWt.varint THEN pb_field_varint(num, pb_dec_varint(r))
    ELSE IF wt = PbWt.fixed64 THEN pb_field_fixed(num, wt, r, 8)
    ELSE IF wt = PbWt.fixed32 THEN pb_field_fixed(num, wt, r, 4)
    ELSE IF wt = PbWt.string THEN pb_field_string(num, pb_dec_varint(r))
    ELSE PbFieldsError
pb_fields_key(k) ==
    IF ~k.ok THEN PbFieldsError ELSE pb_field_at(k.val \div 8, k.val % 8, k.rest)
pb_fields(b) ==
    IF b = <<>> THEN [ok |-> TRUE, fs |-> <<>>] ELSE pb_fields_key(pb_dec_varint(b))

\* ---- message schemata (tc.proto)

PbD(num, name, ty, sub, max) ==
    [num |-> num, name |-> name, ty |-> ty, sub |-> sub, max |-> max]

\* Field types: "V" varint, "F4" fixed32 / float, "F8" fixed64 / double,
\* "B" bytes or string, "M" message, "R" repeated message, "RB" repeated string.
\* max: size of the static buffer of a bytes field, 0 where the model sets none.
PbMaxBytes == 256
Schema(mt) ==
    CASE mt = "RadioMetadata" ->
           << PbD(1, "dr", "V", "", 0), PbD(2, "freq", "V", "", 0),
              PbD(3, "rctx", "V", "", 0), PbD(4, "xtime", "V", "", 0),
              PbD(5, "gpstime", "V", "", 0), PbD(6, "rssi", "V", "", 0),
              PbD(7, "snr", "F4", "", 0), PbD(8, "fts", "V", "", 0),
              PbD(9, "rxtime", "F8", "", 0) >>
      [] mt = "updf" ->
           << PbD(1, "mhdr", "V", "", 0), PbD(2, "dev_addr", "F4", "", 0),
              PbD(3, "fctrl", "V", "", 0), PbD(4, "fcnt", "V", "", 0),
              PbD(5, "fopts", "B", "", PbMaxBytes), PbD(6, "fport", "V", "", 0),
              PbD(7, "frm_payload", "B", "", PbMaxBytes),
              PbD(8, "mic", "F4", "", 0),
              PbD(9, "upinfo", "M", "RadioMetadata", 0),
              PbD(10, "ref_time", "F8", "", 0),
              PbD(11, "pdu", "B", "", PbMaxBytes) >>
      [] mt = "jreq" ->
           << PbD(1, "mhdr", "V", "", 0), PbD(2, "join_eui", "V", "", 0),
              PbD(3, "dev_eui", "V", "", 0), PbD(4, "dev_nonce", "V", "", 0),
              PbD(5, "mic", "V", "", 0),
              PbD(6, "upinfo", "M", "RadioMetadata", 0),
              PbD(7, "ref_time", "F8", "", 0) >>
      [] mt = "propdf" ->
           << PbD(1, "frm_payload", "B", "", PbMaxBytes),
              PbD(2, "upinfo", "M", "RadioMetadata", 0),
              PbD(3, "ref_time", "F8", "", 0) >>
      [] mt = "dntxed" ->
           << PbD(1, "diid", "V", "", 0), PbD(2, "dev_eui", "V", "", 0),
              PbD(3, "rctx", "V", "", 0), PbD(4, "xtime", "V", "", 0),
              PbD(5, "txtime", "F8", "", 0), PbD(6, "gpstime", "V", "", 0),
              PbD(7, "dr", "V", "", 0), PbD(8, "freq", "V", "", 0) >>
      [] mt = "timesync" ->
           << PbD(1, "txtime", "F8", "", 0), PbD(2, "gpstime", "V", "", 0),
              PbD(3, "xtime", "V", "", 0) >>
      [] mt = "dnmsg" ->
           << PbD(1, "dev_eui", "F8", "", 0), PbD(2, "dc", "V", "", 0),
              PbD(3, "diid", "V", "", 0), PbD(4, "pdu", "B", "", PbMaxBytes),
              PbD(5, "rx_delay", "V", "", 0), PbD(6, "rx1_dr", "V", "", 0),
              PbD(7, "rx1_freq", "V", "", 0), PbD(8, "rx2_dr", "V", "", 0),
              PbD(9, "rx2_freq", "V", "", 0), PbD(10, "priority", "V", "", 0),
              PbD(11, "xtime", "V", "", 0), PbD(12, "rctx", "V", "", 0),
              PbD(13, "gpstime", "V", "", 0), PbD(14, "dr", "V", "", 0),
              PbD(15, "freq", "V", "", 0), PbD(16, "mux_time", "F8", "", 0) >>
      [] mt = "ScheduleEntry" ->
           << PbD(1, "pdu", "B", "", PbMaxBytes), PbD(2, "dr", "V", "", 0),
              PbD(3, "freq", "V", "", 0), PbD(4, "priority", "V", "", 0),
              PbD(5, "gpstime", "V", "", 0), PbD(6, "rctx", "V", "", 0) >>
      [] mt = "dnsched" ->
           << PbD(1, "schedule", "R", "ScheduleEntry", 0) >>
      [] mt = "runcmd" ->
           << PbD(1, "command", "B", "", PbMaxBytes),
              PbD(2, "arguments", "RB", "", PbMaxBytes) >>
      [] mt = "rmtsh" ->
           << PbD(1, "user", "B", "", PbMaxBytes), PbD(2, "term", "B", "", PbMaxBytes),
              PbD(3, "start", "V", "", 0), PbD(4, "stop", "V", "", 0),
              PbD(5, "data", "B", "", PbMaxBytes) >>

\* MsgType and the field numbers of the oneof payload of TcMessage.
MsgType ==
    [MSG_UNKNOWN |-> 0, MSG_UPDF |-> 1, MSG_JREQ |-> 2, MSG_PROPDF |-> 3,
     MSG_DNTXED |-> 4, MSG_TIMESYNC |-> 5, MSG_DNMSG |-> 10, MSG_DNSCHED |-> 11,
     MSG_TIMESYNC_RESP |-> 12, MSG_RUNCMD |-> 13, MSG_RMTSH |-> 14]
PayloadTag ==
    [updf |-> 2, jreq |-> 3, propdf |-> 4, dntxed |-> 5, timesync |-> 6,
     dnmsg |-> 10, dnsched |-> 11, runcmd |-> 12, rmtsh |-> 13]
PayloadKinds == DOMAIN PayloadTag

FieldNames(mt) == { Schema(mt)[i].name : i \in 1..Len(Schema(mt)) }
FieldOf(mt, n) == Schema(mt)[CHOOSE i \in 1..Len(Schema(mt)) : Schema(mt)[i].name = n]

\* The all-zero message (basicstation_TcMessage_init_zero and proto3 defaults).
RECURSIVE PbDefault(_)
PbDefault(mt) ==
    [n \in FieldNames(mt) |->
        LET d == FieldOf(mt, n) IN
        IF d.ty \in {"V", "F4", "F8"} THEN 0
        ELSE IF d.ty = "M" THEN [has |-> FALSE, v |-> PbDefault(d.sub)]
        ELSE <<>>]

PbWireType(ty) ==
    IF ty = "V" THEN PbWt.varint
    ELSE IF ty = "F4" THEN PbWt.fixed32
    ELSE IF ty = "F8" THEN PbWt.fixed64
    ELSE PbWt.string

pb_enc_delimited(num, b) == pb_key(num, PbWt.string) \o pb_enc_varint(Len(b)) \o b

\* pb_encode of one message: the fields in the order of their numbers,
\* proto3 leaving out a scalar of zero, empty bytes and an absent submessage.
RECURSIVE pb_encode_from(_, _, _), pb_encode_rep(_, _, _)
pb_encode_rep(d, vs, i) ==
    IF i > Len(vs) THEN <<>>
    ELSE pb_enc_delimited(d.num, IF d.ty = "R" THEN pb_encode_from(d.sub, vs[i], 1)
                                 ELSE vs[i])
         \o pb_encode_rep(d, vs, i + 1)
pb_encode_from(mt, rec, i) ==
    IF i > Len(Schema(mt)) THEN <<>>
    ELSE
    LET d == Schema(mt)[i]
        v == rec[d.name]
        f == IF d.ty = "V" THEN
                 IF v = 0 THEN <<>> ELSE pb_key(d.num, PbWt.varint) \o pb_enc_varint(v)
             ELSE IF d.ty = "F4" THEN
                 IF v = 0 THEN <<>> ELSE pb_key(d.num, PbWt.fixed32) \o pb_enc_fixed(v, 4)
             ELSE IF d.ty = "F8" THEN
                 IF v = 0 THEN <<>> ELSE pb_key(d.num, PbWt.fixed64) \o pb_enc_fixed(v, 8)
             ELSE IF d.ty = "B" THEN
                 IF v = <<>> THEN <<>> ELSE pb_enc_delimited(d.num, v)
             ELSE IF d.ty = "M" THEN
                 IF ~v.has THEN <<>>
                 ELSE pb_enc_delimited(d.num, pb_encode_from(d.sub, v.v, 1))
             ELSE pb_encode_rep(d, v, 1)
    IN f \o pb_encode_from(mt, rec, i + 1)

\* TcMessage: msg_type and the payload selected by which_payload.
TcMessage(type, which, payload) ==
    [msg_type |-> type, which_payload |-> which, payload |-> payload]
TcMessageZero == TcMessage(0, "none", <<>>)

pb_encode(msg) ==
    (IF msg.msg_type = 0 THEN <<>>
     ELSE pb_key(1, PbWt.varint) \o pb_enc_varint(msg.msg_type))
    \o (IF msg.which_payload = "none" THEN <<>>
        ELSE pb_enc_delimited(PayloadTag[msg.which_payload],
                              pb_encode_from(msg.which_payload, msg.payload, 1)))

PbMsgError == [ok |-> FALSE, v |-> <<>>]

\* Positions in the field list fs of the fields numbered num, and all of
\* them in their order.
PbAt(fs, num) == { i \in 1..Len(fs) : fs[i].num = num }
PbOrdered(fs, S) ==
    [k \in 1..Cardinality(S) |->
        CHOOSE i \in S : Cardinality({ j \in S : j < i }) = k - 1]

\* pb_decode of one message: error on a malformed field list, a known field
\* with the wrong wire type, bytes longer than the field's buffer or a
\* submessage in error; unknown fields are skipped; of a field given twice
\* the last one counts.
RECURSIVE pb_decode_msg(_, _)
pb_field_bad(d, fs, at) ==
    \E i \in at :
        \/ fs[i].wt # PbWireType(d.ty)
        \/ d.ty \in {"B", "RB"} /\ d.max > 0 /\ Len(fs[i].b) > d.max
        \/ d.ty \in {"M", "R"} /\ ~pb_decode_msg(d.sub, fs[i].b).ok
pb_field_val(d, fs, at) ==
    IF d.ty \in {"V", "F4", "F8"} THEN
        IF at = {} THEN 0 ELSE fs[PbMax(at)].v
    ELSE IF d.ty = "B" THEN
        IF at = {} THEN <<>> ELSE fs[PbMax(at)].b
    ELSE IF d.ty = "M" THEN
        IF at = {} THEN [has |-> FALSE, v |-> PbDefault(d.sub)]
        ELSE [has |-> TRUE, v |-> pb_decode_msg(d.sub, fs[PbMax(at)].b).v]
    ELSE IF d.ty = "R" THEN
        [k \in 1..Cardinality(at) |-> pb_decode_msg(d.sub, fs[PbOrdered(fs, at)[k]].b).v]
    ELSE [k \in 1..Cardinality(at) |-> fs[PbOrdered(fs, at)[k]].b]
pb_msg_fields(mt, p) ==
    IF ~p.ok THEN PbMsgError
    ELSE IF \E d \in { FieldOf(mt, n) : n \in FieldNames(mt) } :
               pb_field_bad(d, p.fs, PbAt(p.fs, d.num))
    THEN PbMsgError
    ELSE [ok |-> TRUE,
          v |-> [n \in FieldNames(mt) |->
                   pb_field_val(FieldOf(mt, n), p.fs, PbAt(p.fs, FieldOf(mt, n).num))]]
pb_decode_msg(mt, b) == pb_msg_fields(mt, pb_fields(b))

PbDecodeError == [ok |-> FALSE, msg |-> TcMessageZero]

\* pb_decode of a TcMessage. An input without any field is the all-zero message.
PbPayloadKind(num) == CHOOSE k \in PayloadKinds : PayloadTag[k] = num
PbPayloadAt(fs) ==
    { i \in 1..Len(fs) : \E k \in PayloadKinds : PayloadTag[k] = fs[i].num }
pb_payload(f) == pb_decode_msg(PbPayloadKind(f.num), f.b)
pb_tc_bad(fs, T, P) ==
    \/ \E i \in T : fs[i].wt # PbWt.varint
    \/ \E i \in P : fs[i].wt # PbWt.string
    \/ \E i \in P : ~pb_payload(fs[i]).ok
pb_tc_msg(fs, T, P) ==
    TcMessage(IF T = {} THEN 0 ELSE fs[PbMax(T)].v,
              IF P = {} THEN "none" ELSE PbPayloadKind(fs[PbMax(P)].num),
              IF P = {} THEN <<>> ELSE pb_payload(fs[PbMax(P)]).v)
pb_tc_fields(p) ==
    IF ~p.ok THEN PbDecodeError
    ELSE IF pb_tc_bad(p.fs, PbAt(p.fs, 1), PbPayloadAt(p.fs)) THEN PbDecodeError
    ELSE [ok |-> TRUE, msg |-> pb_tc_msg(p.fs, PbAt(p.fs, 1), PbPayloadAt(p.fs))]
pb_decode(b) == pb_tc_fields(pb_fields(b))

\* ---- encoders of the station (station -> LNS)

\* pb_encode into a buffer of bufsize bytes: the bytes written, or -1.
EncError == [n |-> -1, b |-> <<>>]
pb_ostream(bufsize, b) ==
    IF Len(b) > bufsize THEN EncError ELSE [n |-> Len(b), b |-> b]
pb_encode_buf(bufsize, msg) == pb_ostream(bufsize, pb_encode(msg))

\* copylen = len < sizeof(bytes) ? len : sizeof(bytes)
copylen(b, size) == IF Len(b) < size THEN b ELSE SubSeq(b, 1, size)

fill_radio_metadata(a) ==
    [has |-> TRUE,
     v |-> [dr |-> a.dr, freq |-> a.freq, rctx |-> a.rctx, xtime |-> a.xtime,
            gpstime |-> a.gpstime, rssi |-> a.rssi, snr |-> a.snr, fts |-> a.fts,
            rxtime |-> a.rxtime]]

tcpb_encUpdf(bufsize, a) ==
    pb_encode_buf(bufsize,
        TcMessage(MsgType.MSG_UPDF, "updf",
            [PbDefault("updf") EXCEPT
                !.mhdr = a.mhdr, !.dev_addr = a.devaddr, !.fctrl = a.fctrl,
                !.fcnt = a.fcnt, !.fport = a.fport, !.mic = a.mic,
                !.ref_time = a.reftime,
                !.fopts = copylen(a.fopts, PbMaxBytes),
                !.frm_payload = copylen(a.payload, PbMaxBytes),
                !.upinfo = fill_radio_metadata(a)]))

tcpb_encJreq(bufsize, a) ==
    pb_encode_buf(bufsize,
        TcMessage(MsgType.MSG_JREQ, "jreq",
            [PbDefault("jreq") EXCEPT
                !.mhdr = a.mhdr, !.join_eui = a.joineui, !.dev_eui = a.deveui,
                !.dev_nonce = a.devnonce, !.mic = a.mic, !.ref_time = a.reftime,
                !.upinfo = fill_radio_metadata(a)]))

tcpb_encPropdf(bufsize, a) ==
    pb_encode_buf(bufsize,
        TcMessage(MsgType.MSG_PROPDF, "propdf",
            [PbDefault("propdf") EXCEPT
                !.ref_time = a.reftime,
                !.frm_payload = copylen(a.payload, PbMaxBytes),
                !.upinfo = fill_radio_metadata(a)]))

tcpb_encDntxed(bufsize, a) ==
    pb_encode_buf(bufsize,
        TcMessage(MsgType.MSG_DNTXED, "dntxed",
            [PbDefault("dntxed") EXCEPT
                !.diid = a.diid, !.dev_eui = a.deveui, !.rctx = a.rctx,
                !.xtime = a.xtime, !.txtime = a.txtime, !.gpstime = a.gpstime]))

tcpb_encTimesync(bufsize, a) ==
    pb_encode_buf(bufsize,
        TcMessage(MsgType.MSG_TIMESYNC, "timesync",
            [PbDefault("timesync") EXCEPT !.txtime = a.txtime]))

\* Only the pdu field and the radio metadata are set; a pdu that does not
\* fit the buffer of the field is left out.
tcpb_encUpdfPduOnly(bufsize, a) ==
    pb_encode_buf(bufsize,
        TcMessage(MsgType.MSG_UPDF, "updf",
            [PbDefault("updf") EXCEPT
                !.pdu = IF Len(a.pdu) > 0 /\ Len(a.pdu) <= PbMaxBytes
                        THEN a.pdu ELSE <<>>,
                !.upinfo = fill_radio_metadata(a),
                !.ref_time = a.reftime]))

\* ---- tcpb_decode (LNS -> station)

TCPB_MSG_UNKNOWN       == "TCPB_MSG_UNKNOWN"
TCPB_MSG_DNMSG         == "TCPB_MSG_DNMSG"
TCPB_MSG_DNSCHED       == "TCPB_MSG_DNSCHED"
TCPB_MSG_TIMESYNC_RESP == "TCPB_MSG_TIMESYNC_RESP"
TCPB_MSG_RUNCMD        == "TCPB_MSG_RUNCMD"
TCPB_MSG_RMTSH         == "TCPB_MSG_RMTSH"
TCPB_MSG_ERROR         == "TCPB_MSG_ERROR"

u1(v) == v % 256

\* strlen / strcpy of a char array: the bytes before the first NUL.
cstr(b) ==
    IF \E i \in 1..Len(b) : b[i] = 0
    THEN SubSeq(b, 1, (CHOOSE i \in 1..Len(b) :
                          b[i] = 0 /\ \A j \in 1..(i - 1) : b[j] # 0) - 1)
    ELSE b

\* The result left untouched: *result as the caller passed it.
NoResult == [none |-> TRUE]
TcpbResult(type, res) == [type |-> type, res |-> res]

tcpb_switch(msg, src) ==
    IF msg.msg_type = MsgType.MSG_DNMSG THEN
        IF msg.which_payload # "dnmsg" THEN TcpbResult(TCPB_MSG_ERROR, NoResult)
        ELSE TcpbResult(TCPB_MSG_DNMSG,
                [deveui |-> src.dev_eui, dclass |-> u1(src.dc), diid |-> src.diid,
                 rxdelay |-> u1(src.rx_delay), rx1dr |-> u1(src.rx1_dr),
                 rx1freq |-> src.rx1_freq, rx2dr |-> u1(src.rx2_dr),
                 rx2freq |-> src.rx2_freq, priority |-> u1(src.priority),
                 xtime |-> src.xtime, rctx |-> src.rctx, gpstime |-> src.gpstime,
                 dr |-> u1(src.dr), freq |-> src.freq, muxtime |-> src.mux_time,
                 pdu |-> src.pdu, pdulen |-> Len(src.pdu)])
    ELSE IF msg.msg_type = MsgType.MSG_TIMESYNC_RESP THEN
        IF msg.which_payload # "timesync" THEN TcpbResult(TCPB_MSG_ERROR, NoResult)
        ELSE TcpbResult(TCPB_MSG_TIMESYNC_RESP,
                [txtime |-> src.txtime, gpstime |-> src.gpstime,
                 xtime |-> src.xtime])
    ELSE IF msg.msg_type = MsgType.MSG_RUNCMD THEN
        IF msg.which_payload # "runcmd" THEN TcpbResult(TCPB_MSG_ERROR, NoResult)
        ELSE TcpbResult(TCPB_MSG_RUNCMD,
                [command |-> cstr(src.command), argc |-> Len(src.arguments),
                 argv |-> [i \in 1..Len(src.arguments) |-> cstr(src.arguments[i])]])
    ELSE IF msg.msg_type = MsgType.MSG_RMTSH THEN
        IF msg.which_payload # "rmtsh" THEN TcpbResult(TCPB_MSG_ERROR, NoResult)
        ELSE TcpbResult(TCPB_MSG_RMTSH,
                [user |-> cstr(src.user), term |-> cstr(src.term),
                 start |-> IF src.start # 0 THEN 1 ELSE 0,
                 stop |-> IF src.stop # 0 THEN 1 ELSE 0,
                 data |-> src.data, datalen |-> Len(src.data)])
    ELSE TcpbResult(TCPB_MSG_UNKNOWN, NoResult)
tcpb_decoded(d) ==
    IF ~d.ok THEN TcpbResult(TCPB_MSG_ERROR, NoResult)
    ELSE tcpb_switch(d.msg, d.msg.payload)
tcpb_decode(data) == tcpb_decoded(pb_decode(data))

\* ---- what follows a decoded downlink (s2e.c): the jobs enqueued

ClassBJob(e) ==
    [dC |-> "B", pdu |-> e.pdu, dr |-> e.dr, freq |-> e.freq,
     prio |-> e.priority, gpstime |-> e.gpstime, rctx |-> e.rctx]
DnmsgJob(m) ==
    [dC |-> m.dclass, pdu |-> m.pdu, dr |-> m.dr, freq |-> m.freq,
     prio |-> m.priority, gpstime |-> m.gpstime, rctx |-> m.rctx]
tcpb_jobs(r) ==
    IF r.type = TCPB_MSG_DNMSG THEN << DnmsgJob(r.res) >>
    ELSE IF r.type = TCPB_MSG_DNSCHED
    THEN [i \in 1..Len(r.res.schedule) |-> ClassBJob(r.res.schedule[i])]
    ELSE <<>>

\* ---- inputs

PbLens == {0, 1, 127, 128, 255}
PbPayload(n) == [i \in 1..n |-> (i * 37) % 256]
BufSizes == {10, 512}

RadioArgs ==
    { [dr |-> 5, freq |-> 868100000, rctx |-> r, xtime |-> 2147483647,
       gpstime |-> 0, rssi |-> -120, snr |-> s, fts |-> -1, rxtime |-> 1700000000]
      : r \in {0, -1}, s \in {-7} }

UpdfArgs ==
    { rm @@ [mhdr |-> 64, devaddr |-> d, fctrl |-> 2, fcnt |-> 65535,
             fopts |-> fo, fport |-> p, payload |-> PbPayload(n), mic |-> m,
             reftime |-> 0]
      : rm \in RadioArgs, d \in {-1430532899, 1}, fo \in {<<>>, <<2, 48>>},
        p \in {-1, 0, 1}, n \in PbLens, m \in {-1, 7} }
JreqArgs ==
    { rm @@ [mhdr |-> 0, joineui |-> j, deveui |-> 2147483647, devnonce |-> n,
             mic |-> m, reftime |-> 3]
      : rm \in RadioArgs, j \in {0, 1}, n \in {0, 65535}, m \in {-2147483647, 7} }
PropdfArgs ==
    { rm @@ [payload |-> PbPayload(n), reftime |-> 0]
      : rm \in RadioArgs, n \in PbLens }
DntxedArgs ==
    { [diid |-> d, deveui |-> 1, rctx |-> r, xtime |-> 2147483647, txtime |-> t,
       gpstime |-> 0]
      : d \in {-1, 0, 123456}, r \in {-1, 0}, t \in {0, 1700000000} }
TimesyncArgs == { [txtime |-> t] : t \in {0, 1, 1700000000} }
PduOnlyArgs ==
    { rm @@ [pdu |-> PbPayload(n), reftime |-> 0] : rm \in RadioArgs, n \in PbLens }

\* The message the caller asked to send, field by field.
UpMessage(kind, a) ==
    IF kind = "updf" THEN
        TcMessage(MsgType.MSG_UPDF, "updf",
            [PbDefault("updf") EXCEPT
                !.mhdr = a.mhdr, !.dev_addr = a.devaddr, !.fctrl = a.fctrl,
                !.fcnt = a.fcnt, !.fopts = a.fopts, !.fport = a.fport,
                !.frm_payload = a.payload, !.mic = a.mic, !.ref_time = a.reftime,
                !.upinfo = fill_radio_metadata(a)])
    ELSE IF kind = "jreq" THEN
        TcMessage(MsgType.MSG_JREQ, "jreq",
            [PbDefault("jreq") EXCEPT
                !.mhdr = a.mhdr, !.join_eui = a.joineui, !.dev_eui = a.deveui,
                !.dev_nonce = a.devnonce, !.mic = a.mic, !.ref_time = a.reftime,
                !.upinfo = fill_radio_metadata(a)])
    ELSE IF kind = "propdf" THEN
        TcMessage(MsgType.MSG_PROPDF, "propdf",
            [PbDefault("propdf") EXCEPT
                !.frm_payload = a.payload, !.ref_time = a.reftime,
                !.upinfo = fill_radio_metadata(a)])
    ELSE IF kind = "dntxed" THEN
        TcMessage(MsgType.MSG_DNTXED, "dntxed",
            [PbDefault("dntxed") EXCEPT
                !.diid = a.diid, !.dev_eui = a.deveui, !.rctx = a.rctx,
                !.xtime = a.xtime, !.txtime = a.txtime, !.gpstime = a.gpstime])
    ELSE IF kind = "timesync" THEN
        TcMessage(MsgType.MSG_TIMESYNC, "timesync",
            [PbDefault("timesync") EXCEPT !.txtime = a.txtime])
    ELSE
        TcMessage(MsgType.MSG_UPDF, "updf",
            [PbDefault("updf") EXCEPT
                !.pdu = a.pdu, !.ref_time = a.reftime,
                !.upinfo = fill_radio_metadata(a)])

\* Messages of the LNS.
LnsDnmsg ==
    { TcMessage(MsgType.MSG_DNMSG, "dnmsg",
        [PbDefault("dnmsg") EXCEPT
            !.dev_eui = 16909060, !.dc = c, !.diid = d, !.pdu = PbPayload(n),
            !.rx_delay = 1, !.rx1_dr = 5, !.rx1_freq = 868100000,
            !.rx2_freq = 869525000, !.priority = 255, !.xtime = 2147483647,
            !.rctx = r, !.mux_time = 1700000000])
      : c \in {0, 2}, d \in {-1, 123456}, n \in PbLens, r \in {-1, 0} }
SchedEntries ==
    { [pdu |-> PbPayload(n), dr |-> 3, freq |-> 869525000, priority |-> 1,
       gpstime |-> 1400000000, rctx |-> n - 1] : n \in {0, 17} }
LnsDnsched ==
    { TcMessage(MsgType.MSG_DNSCHED, "dnsched", [schedule |-> s])
      : s \in {<<>>} \cup { <<e>> : e \in SchedEntries }
              \cup { <<e, f>> : e \in SchedEntries, f \in SchedEntries } }
LnsTimesync ==
    { TcMessage(MsgType.MSG_TIMESYNC_RESP, "timesync",
        [txtime |-> t, gpstime |-> g, xtime |-> 2147483647])
      : t \in {0, 1700000000}, g \in {-1, 1400000000} }
LnsRuncmd ==
    { TcMessage(MsgType.MSG_RUNCMD, "runcmd", [command |-> c, arguments |-> a])
      : c \in {<<>>, <<108, 115>>}, a \in {<<>>, << <<45, 108>>, <<47>> >>} }
LnsRmtsh ==
    { TcMessage(MsgType.MSG_RMTSH, "rmtsh",
        [user |-> <<114>>, term |-> t, start |-> s, stop |-> 1 - s, data |-> d])
      : t \in {<<>>, <<118, 116>>}, s \in {0, 1}, d \in {<<>>, <<0, 255>>} }
\* Message type and payload that do not belong together, types the decoder
\* has no case for.
LnsOdd ==
    { TcMessage(MsgType.MSG_DNMSG, "timesync", PbDefault("timesync")),
      TcMessage(MsgType.MSG_DNMSG, "none", <<>>),
      TcMessage(MsgType.MSG_TIMESYNC_RESP, "dnmsg", PbDefault("dnmsg")),
      TcMessage(MsgType.MSG_RUNCMD, "none", <<>>),
      TcMessage(MsgType.MSG_RMTSH, "runcmd", PbDefault("runcmd")),
      TcMessage(MsgType.MSG_UNKNOWN, "dnmsg", PbDefault("dnmsg")),
      TcMessage(MsgType.MSG_UPDF, "updf", PbDefault("updf")),
      TcMessage(99, "none", <<>>) }
LnsKind(m) ==
    IF m \in LnsDnmsg THEN "dnmsg"
    ELSE IF m \in LnsDnsched THEN "dnsched"
    ELSE IF m \in LnsTimesync THEN "timesync_resp"
    ELSE IF m \in LnsRuncmd THEN "runcmd"
    ELSE IF m \in LnsRmtsh THEN "rmtsh"
    ELSE "odd"
LnsMessages ==
    LnsDnmsg \cup LnsDnsched \cup LnsTimesync \cup LnsRuncmd \cup LnsRmtsh \cup LnsOdd

\* Bytes that are no encoding of a message, and the empty input.
RawInputs ==
    { <<>>, <<8>>, <<8, 10, 82, 5, 8>>, <<255, 255>>, <<8, 10, 80, 1>>,
      <<8, 10, 82, 2, 32, 1>>, <<15>> }

\* ---- the codec at work

NoPbMsg   == [dir |-> "none", kind |-> "none", msg |-> TcMessageZero]
NoPbWire  == [n |-> 0, b |-> <<>>]
NoLnsRx   == [ok |-> FALSE, msg |-> TcMessageZero]
NoTcpbRx  == TcpbResult("none", NoResult)

InitTcpb ==
    /\ pbstate = "idle"
    /\ pbmsg = NoPbMsg
    /\ pbwire = NoPbWire
    /\ lnsrx = NoLnsRx
    /\ tcpbrx = NoTcpbRx
    /\ pbjobs = <<>>

\* The station encodes an uplink; an encoding that failed is not sent.
UpSent(kind, a) == [dir |-> "up", kind |-> kind, msg |-> UpMessage(kind, a)]

TcpbEncUpdf ==
    /\ pbstate = "idle"
    /\ \E bufsize \in BufSizes, a \in UpdfArgs :
          /\ pbmsg' = UpSent("updf", a)
          /\ pbwire' = tcpb_encUpdf(bufsize, a)
    /\ pbstate' = IF pbwire'.n < 0 THEN "failed" ELSE "sent"
    /\ UNCHANGED <<lnsrx, tcpbrx, pbjobs>>
    /\ UNCHANGED notTcpb

TcpbEncJreq ==
    /\ pbstate = "idle"
    /\ \E bufsize \in BufSizes, a \in JreqArgs :
          /\ pbmsg' = UpSent("jreq", a)
          /\ pbwire' = tcpb_encJreq(bufsize, a)
    /\ pbstate' = IF pbwire'.n < 0 THEN "failed" ELSE "sent"
    /\ UNCHANGED <<lnsrx, tcpbrx, pbjobs>>
    /\ UNCHANGED notTcpb

TcpbEncPropdf ==
    /\ pbstate = "idle"
    /\ \E bufsize \in BufSizes, a \in PropdfArgs :
          /\ pbmsg' = UpSent("propdf", a)
          /\ pbwire' = tcpb_encPropdf(bufsize, a)
    /\ pbstate' = IF pbwire'.n < 0 THEN "failed" ELSE "sent"
    /\ UNCHANGED <<lnsrx, tcpbrx, pbjobs>>
    /\ UNCHANGED notTcpb

TcpbEncDntxed ==
    /\ pbstate = "idle"
    /\ \E bufsize \in BufSizes, a \in DntxedArgs :
          /\ pbmsg' = UpSent("dntxed", a)
          /\ pbwire' = tcpb_encDntxed(bufsize, a)
    /\ pbstate' = IF pbwire'.n < 0 THEN "failed" ELSE "sent"
    /\ UNCHANGED <<lnsrx, tcpbrx, pbjobs>>
    /\ UNCHANGED notTcpb

TcpbEncTimesync ==
    /\ pbstate = "idle"
    /\ \E bufsize \in BufSizes, a \in TimesyncArgs :
          /\ pbmsg' = UpSent("timesync", a)
          /\ pbwire' = tcpb_encTimesync(bufsize, a)
    /\ pbstate' = IF pbwire'.n < 0 THEN "failed" ELSE "sent"
    /\ UNCHANGED <<lnsrx, tcpbrx, pbjobs>>
    /\ UNCHANGED notTcpb

TcpbEncUpdfPduOnly ==
    /\ pbstate = "idle"
    /\ \E bufsize \in BufSizes, a \in PduOnlyArgs :
          /\ pbmsg' = UpSent("updf-pdu", a)
          /\ pbwire' = tcpb_encUpdfPduOnly(bufsize, a)
    /\ pbstate' = IF pbwire'.n < 0 THEN "failed" ELSE "sent"
    /\ UNCHANGED <<lnsrx, tcpbrx, pbjobs>>
    /\ UNCHANGED notTcpb

\* The LNS decodes what the station sent.
LnsRecv ==
    /\ pbstate = "sent" /\ pbmsg.dir = "up"
    /\ lnsrx' = pb_decode(pbwire.b)
    /\ pbstate' = "received"
    /\ UNCHANGED <<pbmsg, pbwire, tcpbrx, pbjobs>>
    /\ UNCHANGED notTcpb

\* The LNS sends a message in its binary encoding.
LnsSend ==
    /\ pbstate = "idle"
    /\ \E m \in LnsMessages :
          /\ pbmsg' = [dir |-> "dn", kind |-> LnsKind(m), msg |-> m]
          /\ pbwire' = pb_ostream(Len(pb_encode(m)), pb_encode(m))
    /\ pbstate' = "sent"
    /\ UNCHANGED <<lnsrx, tcpbrx, pbjobs>>
    /\ UNCHANGED notTcpb

\* Bytes arrive that no encoder produced.
LnsSendRaw ==
    /\ pbstate = "idle"
    /\ \E b \in RawInputs :
          /\ pbmsg' = [dir |-> "dn", kind |-> "raw", msg |-> TcMessageZero]
          /\ pbwire' = [n |-> Len(b), b |-> b]
    /\ pbstate' = "sent"
    /\ UNCHANGED <<lnsrx, tcpbrx, pbjobs>>
    /\ UNCHANGED notTcpb

\* The station decodes a binary message and enqueues the jobs it carries.
TcpbDecode ==
    /\ pbstate = "sent" /\ pbmsg.dir = "dn"
    /\ tcpbrx' = tcpb_decode(pbwire.b)
    /\ pbjobs' = tcpb_jobs(tcpbrx')
    /\ pbstate' = "received"
    /\ UNCHANGED <<pbmsg, pbwire, lnsrx>>
    /\ UNCHANGED notTcpb

TcpbDone ==
    /\ pbstate \in {"received", "failed"}
    /\ pbstate' = "idle"
    /\ pbmsg' = NoPbMsg
    /\ pbwire' = NoPbWire
    /\ lnsrx' = NoLnsRx
    /\ tcpbrx' = NoTcpbRx
    /\ pbjobs' = <<>>
    /\ UNCHANGED notTcpb

NextTcpb ==
    \/ TcpbEncUpdf \/ TcpbEncJreq \/ TcpbEncPropdf \/ TcpbEncDntxed
    \/ TcpbEncTimesync \/ TcpbEncUpdfPduOnly \/ LnsRecv
    \/ LnsSend \/ LnsSendRaw \/ TcpbDecode \/ TcpbDone

\* What decoding a downlink of the LNS has to give: every field as sent.
ExpectedDn(m) ==
    LET p == m.payload IN
    IF m.which_payload = "dnmsg" THEN
        TcpbResult(TCPB_MSG_DNMSG,
            [deveui |-> p.dev_eui, dclass |-> p.dc, diid |-> p.diid,
             rxdelay |-> p.rx_delay, rx1dr |-> p.rx1_dr, rx1freq |-> p.rx1_freq,
             rx2dr |-> p.rx2_dr, rx2freq |-> p.rx2_freq, priority |-> p.priority,
             xtime |-> p.xtime, rctx |-> p.rctx, gpstime |-> p.gpstime,
             dr |-> p.dr, freq |-> p.freq, muxtime |-> p.mux_time,
             pdu |-> p.pdu, pdulen |-> Len(p.pdu)])
    ELSE IF m.which_payload = "timesync" THEN
        TcpbResult(TCPB_MSG_TIMESYNC_RESP,
            [txtime |-> p.txtime, gpstime |-> p.gpstime, xtime |-> p.xtime])
    ELSE TcpbResult(TCPB_MSG_DNSCHED, p)

UpKinds == {"updf", "jreq", "propdf", "dntxed", "timesync", "updf-pdu"}
DnKinds == {"dnmsg", "dnsched", "timesync_resp"}

RoundTrip(kinds) ==
    (pbstate = "received" /\ pbmsg.kind \in kinds) =>
        IF pbmsg.dir = "up"
        THEN lnsrx = [ok |-> TRUE, msg |-> pbmsg.msg]
        ELSE tcpbrx = ExpectedDn(pbmsg.msg)

\* C27: for every data-plane message, decoding its binary encoding gives a
\* message equal to it in every field, negative integers and payloads of
\* every length up to 255 bytes included; nothing is truncated, dropped or
\* altered.
C27_BinaryRoundTrip == RoundTrip(UpKinds \cup DnKinds)

\* The round trip of the messages other than dnsched.
RoundTripButDnsched == RoundTrip((UpKinds \cup DnKinds) \ {"dnsched"})
RoundTripSeen ==
    /\ pbstate = "received" /\ pbmsg.kind = "updf"
    /\ Len(pbmsg.msg.payload.frm_payload) = 255
    /\ pbmsg.msg.payload.dev_addr < 0 /\ pbmsg.msg.payload.fport = -1

\* C28: tcpb_decode of a zero-length input returns TCPB_MSG_ERROR, never a
\* message type and never TCPB_MSG_UNKNOWN.
C28_DecodeEmptyIsError ==
    (pbstate = "received" /\ pbmsg.kind = "raw" /\ pbwire.n = 0) =>
        tcpbrx.type = TCPB_MSG_ERROR

\* Malformed inputs of one byte and more are errors.
MalformedIsError ==
    (pbstate = "received" /\ pbmsg.kind = "raw" /\ pbwire.n > 0) =>
        tcpbrx.type = TCPB_MSG_ERROR

\* C29: with the binary codec, an inbound dnsched is recognised as a dnsched
\* and each of its entries is enqueued as a class-B downlink job.
C29_BinaryDnschedEnqueued ==
    (pbstate = "received" /\ pbmsg.kind = "dnsched") =>
        /\ tcpbrx.type = TCPB_MSG_DNSCHED
        /\ Len(pbjobs) = Len(pbmsg.msg.payload.schedule)
        /\ \A i \in 1..Len(pbjobs) :
              pbjobs[i] = ClassBJob(pbmsg.msg.payload.schedule[i])

\* A binary dnmsg is recognised and gives one job.
DnmsgEnqueued ==
    (pbstate = "received" /\ pbmsg.kind = "dnmsg") =>
        /\ tcpbrx.type = TCPB_MSG_DNMSG
        /\ Len(pbjobs) = 1 /\ pbjobs[1].pdu = pbmsg.msg.payload.pdu

(***************************************************************************)
(* Errors local to one message and the LNS session                         *)
(***************************************************************************)

MaxSessErrors == 3    \* local errors counted in a run

\* What the session does with one message, frame or downlink.
DROPPED    == "dropped"       \* logged, dropped, the session goes on
HANDLED    == "handled"
TERMINATED == "terminated"    \* the session ends, the transport reconnects

\* Inbound JSON text by what the parser and the dispatcher find in it.
JsonInputs ==
    {"malformed", "unknown msgtype", "dnmsg", "dnsched", "timesync",
     "router_config rejected"}
json_outcome(j) ==
    IF j = "malformed" THEN DROPPED
    ELSE IF j = "unknown msgtype" THEN DROPPED
    ELSE IF j = "router_config rejected" THEN TERMINATED
    ELSE HANDLED

\* Inbound binary messages: bytes that are no message, messages of a type
\* the station does not know, and messages it knows.
BinaryInputs ==
    { [class |-> "malformed", b |-> b] : b \in RawInputs }
    \cup { [class |-> "unknown msgtype", b |-> pb_encode(m)]
           : m \in { TcMessage(99, "none", <<>>),
                     TcMessage(MsgType.MSG_UPDF, "updf", PbDefault("updf")) } }
    \cup { [class |-> "valid", b |-> pb_encode(m)]
           : m \in { x \in LnsDnmsg : Len(x.payload.pdu) = 1 } \cup LnsTimesync }

\* A binary message whose decoding fails ends the session.
tcpb_outcome_strict(r) ==
    IF r.type = TCPB_MSG_ERROR THEN TERMINATED
    ELSE IF r.type = TCPB_MSG_UNKNOWN THEN DROPPED
    ELSE HANDLED

tcpb_outcome(r) ==
    IF r.type = TCPB_MSG_ERROR THEN DROPPED
    ELSE IF r.type = TCPB_MSG_UNKNOWN THEN DROPPED
    ELSE HANDLED

\* PHY frames off the radio, no filters set.
SessFrames ==
    { [mhdr |-> m, len |-> l, joineui |-> 0, netid |-> 0, foptslen |-> 0]
      : m \in {64, 65, 224}, l \in {0, 1, 11, 12, 13} }
rx_outcome(m) == IF m = NoMsg THEN DROPPED ELSE HANDLED

\* What the radio answers to one downlink.
DnResults == {"ok", "tx busy", "cca busy", "too late"}
dn_outcome(res) == IF res = "ok" THEN HANDLED ELSE DROPPED

NoSessEvent == [src |-> "none", class |-> "none", outcome |-> "none", prev |-> "none"]
SessEvent(src, class, outcome, prev) ==
    [src |-> src, class |-> class, outcome |-> outcome, prev |-> prev]
sess_after(outcome, st) == IF outcome = TERMINATED THEN "closed" ELSE st
sess_count(outcome, n) == IF outcome = DROPPED THEN n + 1 ELSE n
SessRoom(outcome) == outcome = DROPPED => seserrs < MaxSessErrors

InitSess ==
    /\ ses = "closed"
    /\ seslast = NoSessEvent
    /\ seserrs = 0

SessConnect ==
    /\ ses = "closed"
    /\ ses' = "connected"
    /\ seslast' = NoSessEvent
    /\ seserrs' = 0
    /\ UNCHANGED notSess

\* A JSON text of the LNS arrives.
SessJson ==
    /\ ses = "connected"
    /\ \E j \in JsonInputs :
          /\ SessRoom(json_outcome(j))
          /\ seslast' = SessEvent("json",
                            IF j \in {"malformed", "unknown msgtype"} THEN j
                            ELSE IF j = "router_config rejected" THEN "session"
                            ELSE "valid",
                            json_outcome(j), seslast.class)
          /\ ses' = sess_after(json_outcome(j), ses)
          /\ seserrs' = sess_count(json_outcome(j), seserrs)
    /\ UNCHANGED notSess

\* A binary message of the LNS arrives.
SessBinary ==
    /\ ses = "connected"
    /\ \E i \in BinaryInputs :
          /\ SessRoom(tcpb_outcome(tcpb_decode(i.b)))
          /\ seslast' = SessEvent("binary", i.class,
                                  tcpb_outcome(tcpb_decode(i.b)), seslast.class)
          /\ ses' = sess_after(tcpb_outcome(tcpb_decode(i.b)), ses)
          /\ seserrs' = sess_count(tcpb_outcome(tcpb_decode(i.b)), seserrs)
    /\ UNCHANGED notSess

\* The radio hands over a frame.
SessRxFrame ==
    /\ ses = "connected"
    /\ \E fr \in SessFrames :
          /\ SessRoom(rx_outcome(s2e_parse_lora_frame(fr, <<>>, AllNetIds)))
          /\ seslast' = SessEvent("phy",
                            IF s2e_parse_lora_frame(fr, <<>>, AllNetIds) = NoMsg
                            THEN "parse error" ELSE "valid",
                            rx_outcome(s2e_parse_lora_frame(fr, <<>>, AllNetIds)),
                            seslast.class)
          /\ ses' = sess_after(rx_outcome(s2e_parse_lora_frame(fr, <<>>, AllNetIds)), ses)
          /\ seserrs' = sess_count(rx_outcome(s2e_parse_lora_frame(fr, <<>>, AllNetIds)),
                                   seserrs)
    /\ UNCHANGED notSess

\* A downlink job is handed to the radio.
SessDownlink ==
    /\ ses = "connected"
    /\ \E res \in DnResults :
          /\ SessRoom(dn_outcome(res))
          /\ seslast' = SessEvent("downlink",
                                  IF res = "ok" THEN "valid" ELSE "failed downlink",
                                  dn_outcome(res), seslast.class)
          /\ ses' = sess_after(dn_outcome(res), ses)
          /\ seserrs' = sess_count(dn_outcome(res), seserrs)
    /\ UNCHANGED notSess

\* The transport loses the connection.
SessDisconnect ==
    /\ ses = "connected"
    /\ ses' = "closed"
    /\ seslast' = SessEvent("transport", "disconnect", TERMINATED, seslast.class)
    /\ UNCHANGED seserrs
    /\ UNCHANGED notSess

NextSess ==
    \/ SessConnect \/ SessJson \/ SessBinary \/ SessRxFrame \/ SessDownlink
    \/ SessDisconnect

LocalErrors ==
    {"malformed", "unknown msgtype", "parse error", "failed downlink"}

C30_WitnessPhy ==
    /\ seslast.src = "phy" /\ seslast.class = "parse error" /\ ses = "connected"

(***************************************************************************)
(* Layers of the concentrator configuration: sx130xconf_parse_setup        *)
(***************************************************************************)

TXPOW_SCALE == 10

\* An optional field of a JSON object: <<>> when absent, <<v>> when given.
Opt(S) == {<<>>} \cup { <<v>> : v \in S }

\* One configuration object (station.conf, slave-N.conf, or the sx130x_conf
\* of the LNS) with the fields of the model.
ConfLayer(lp, pps, clk, gain, freq, chan) ==
    [lorawan_public |-> lp, pps |-> pps, clksrc |-> clk, antenna_gain |-> gain,
     radio_0_freq |-> freq, chan_multiSF_0 |-> chan]
IfObj(en, if) == [enable |-> en, if |-> if]
NoLayer == ConfLayer(<<>>, <<>>, <<>>, <<>>, <<>>, <<>>)

StationLayers ==
    { ConfLayer(<<>>, p, c, g, <<867500000>>, ch) :
        p \in Opt({TRUE}), c \in Opt({1}), g \in Opt({3}),
        ch \in Opt({IfObj(<<TRUE>>, <<-200000>>)}) }
SlaveLayers ==
    { ConfLayer(lp, <<>>, <<>>, g, f, <<>>) :
        lp \in Opt({FALSE}), g \in Opt({0, 5}), f \in Opt({868500000}) }
LnsLayers ==
    { ConfLayer(lp, p, <<>>, g, f, ch) :
        lp \in Opt({TRUE, FALSE}), p \in Opt({FALSE}), g \in Opt({0}),
        f \in Opt({869500000}),
        ch \in Opt({IfObj(<<>>, <<200000>>), IfObj(<<TRUE>>, <<>>)}) }

\* The struct after memset and the non-zero default.
ZeroSx130xconf ==
    [lorawan_public |-> TRUE, pps |-> FALSE, clksrc |-> 0, txpowAdjust |-> 0,
     rf0_freq_hz |-> 0, if0 |-> [enable |-> FALSE, freq_hz |-> 0]]

\* parse_ifconf: the chain is cleared, then each field given is assigned.
parse_ifconf(o) ==
    [enable |-> IF o.enable = <<>> THEN FALSE ELSE o.enable[1],
     freq_hz |-> IF o.if = <<>> THEN 0 ELSE o.if[1]]

\* parse_sx130x_conf on one object: every field given is handled in turn.
parse_sx130x_layer(conf, l) ==
    [lorawan_public |-> IF l.lorawan_public = <<>> THEN conf.lorawan_public
                        ELSE l.lorawan_public[1],
     pps |-> IF l.pps = <<>> THEN conf.pps ELSE l.pps[1],
     clksrc |-> IF l.clksrc = <<>> THEN conf.clksrc ELSE 0,
     txpowAdjust |-> IF l.antenna_gain = <<>> THEN conf.txpowAdjust
                     ELSE IF l.antenna_gain[1] # 0
                     THEN l.antenna_gain[1] * TXPOW_SCALE
                     ELSE conf.txpowAdjust,
     rf0_freq_hz |-> IF l.radio_0_freq = <<>> THEN conf.rf0_freq_hz
                     ELSE l.radio_0_freq[1],
     if0 |-> IF l.chan_multiSF_0 = <<>> THEN conf.if0
             ELSE parse_ifconf(l.chan_multiSF_0[1])]

\* sx130xconf_parse_setup: station.conf, slave-N.conf when slaveIdx >= 0, then
\* the JSON of the LNS; 0 when a file cannot be read.
SetupFailed(conf) == [ret |-> 0, conf |-> conf]
sx130xconf_parse_layers(in) ==
    IF ~in.station_ok THEN SetupFailed(ZeroSx130xconf)
    ELSE IF in.slaveIdx >= 0 /\ ~in.slave_ok
    THEN SetupFailed(parse_sx130x_layer(ZeroSx130xconf, in.station))
    ELSE [ret |-> 1,
          conf |-> parse_sx130x_layer(
                      IF in.slaveIdx >= 0
                      THEN parse_sx130x_layer(
                              parse_sx130x_layer(ZeroSx130xconf, in.station), in.slave)
                      ELSE parse_sx130x_layer(ZeroSx130xconf, in.station),
                      in.lns)]

NoSetup == [slaveIdx |-> -1, station_ok |-> FALSE, slave_ok |-> FALSE,
            station |-> NoLayer, slave |-> NoLayer, lns |-> NoLayer]

InitLayer ==
    /\ setupin = NoSetup
    /\ setupout = [ret |-> -1, conf |-> ZeroSx130xconf]

\* A router_config with an sx130x_conf arrives: the struct is built anew.
ParseSetup ==
    /\ setupin = NoSetup
    /\ \E idx \in {-1, 0}, so \in BOOLEAN, sl \in BOOLEAN,
          st \in StationLayers, sv \in SlaveLayers, lns \in LnsLayers :
          /\ idx < 0 => (sl /\ sv = NoLayer)
          /\ setupin' = [slaveIdx |-> idx, station_ok |-> so, slave_ok |-> sl,
                         station |-> st, slave |-> sv, lns |-> lns]
          /\ setupout' = sx130xconf_parse_layers(setupin')
    /\ UNCHANGED notLayer

\* The session ends; the next one starts with a router_config of its own.
SetupSessionEnd ==
    /\ setupin # NoSetup
    /\ setupin' = NoSetup
    /\ setupout' = [ret |-> -1, conf |-> ZeroSx130xconf]
    /\ UNCHANGED notLayer

NextLayer == ParseSetup \/ SetupSessionEnd

\* The layers that were read, in their order.
LayersOf(in) ==
    IF in.slaveIdx >= 0 THEN << in.station, in.slave, in.lns >>
    ELSE << in.station, in.lns >>
\* The value of field f in the last layer that gives it, else the default.
LastGiven(ls, f, default) ==
    IF \A i \in 1..Len(ls) : ls[i][f] = <<>> THEN default
    ELSE ls[CHOOSE i \in 1..Len(ls) :
               ls[i][f] # <<>> /\ \A j \in (i + 1)..Len(ls) : ls[j][f] = <<>>][f][1]
\* The same for a field of the chan_multiSF_0 object.
LastGivenIf(ls, f, default) ==
    LastGiven([i \in 1..Len(ls) |->
                 [x |-> IF ls[i].chan_multiSF_0 = <<>> THEN <<>>
                        ELSE ls[i].chan_multiSF_0[1][f]]], "x", default)

LayeredScalars(ls, c) ==
    /\ c.lorawan_public = LastGiven(ls, "lorawan_public", TRUE)
    /\ c.pps = LastGiven(ls, "pps", FALSE)
    /\ c.rf0_freq_hz = LastGiven(ls, "radio_0_freq", 0)
LayeredGain(ls, c) ==
    c.txpowAdjust = LastGiven(ls, "antenna_gain", 0) * TXPOW_SCALE
LayeredClksrc(ls, c) ==
    c.clksrc = LastGiven(ls, "clksrc", 0)
\* chan_multiSF_0 taken as one field: the object of the last layer giving it.
LayeredIfObj(ls, c) ==
    c.if0 = IF \A i \in 1..Len(ls) : ls[i].chan_multiSF_0 = <<>>
            THEN ZeroSx130xconf.if0
            ELSE parse_ifconf(LastGiven(ls, "chan_multiSF_0", IfObj(<<>>, <<>>)))
\* The fields inside chan_multiSF_0 taken one by one.
LayeredIf(ls, c) ==
    /\ c.if0.enable = LastGivenIf(ls, "enable", FALSE)
    /\ c.if0.freq_hz = LastGivenIf(ls, "if", 0)

\* C31: the configuration is layered station.conf, slave-N.conf, LNS: for
\* every field the effective value is the one of the last layer that sets
\* it; a later layer overrides any earlier value, and a field a later layer
\* does not mention keeps the earlier value.
C31_LastLayerWins ==
    setupout.ret = 1 =>
        /\ LayeredScalars(LayersOf(setupin), setupout.conf)
        /\ LayeredGain(LayersOf(setupin), setupout.conf)
        /\ LayeredClksrc(LayersOf(setupin), setupout.conf)
        /\ LayeredIfObj(LayersOf(setupin), setupout.conf)

\* The parts of it taken one by one.
LayeredScalarsHold ==
    setupout.ret = 1 => LayeredScalars(LayersOf(setupin), setupout.conf)
LayeredGainHolds ==
    setupout.ret = 1 => LayeredGain(LayersOf(setupin), setupout.conf)
LayeredClksrcHolds ==
    setupout.ret = 1 => LayeredClksrc(LayersOf(setupin), setupout.conf)
LayeredIfObjHolds ==
    setupout.ret = 1 => LayeredIfObj(LayersOf(setupin), setupout.conf)
LayeredIfHolds ==
    setupout.ret = 1 => LayeredIf(LayersOf(setupin), setupout.conf)

(***************************************************************************)
(* Channel allocation: sx130xconf_challoc_cb                               *)
(***************************************************************************)

SX130X_RFE_MAX == 400000
LGW_IF_CHAIN_NB == 10
MaxChips == 2

\* The IF chains of the model: one multi-SF chain, the fast LoRa chain and
\* the FSK chain; the RF front-ends.
ChainIds == {0, LGW_IF_CHAIN_NB - 2, LGW_IF_CHAIN_NB - 1}
RfChains == {0, 1}

abs(x) == IF x < 0 THEN -x ELSE x

\* What sx130xconf_parse_setup can leave in the struct: a chain is cleared,
\* or enabled with the radio and the "if" value of its JSON object ("if" is
\* read by uj_int, without a range).
IfZero == [enable |-> FALSE, freq_hz |-> 0, rf_chain |-> 0, datarate |-> "0"]
IfParsed ==
    {IfZero} \cup
    { [enable |-> TRUE, freq_hz |-> IF r = 0 THEN -200000 ELSE 450000,
       rf_chain |-> r, datarate |-> "0"] : r \in RfChains }
RfParsed ==
    { [r \in RfChains |-> IF r = 0 THEN [enable |-> TRUE, freq_hz |-> 867100000]
                          ELSE x] :
        x \in { [enable |-> FALSE, freq_hz |-> 0],
                [enable |-> TRUE, freq_hz |-> 869000000] } }
ChParsedConfs == { [rfconf |-> rf, ifconf |-> ic] :
                     rf \in RfParsed, ic \in [ChainIds -> IfParsed] }
ChZeroConf ==
    [rfconf |-> [r \in RfChains |-> [enable |-> FALSE, freq_hz |-> 0]],
     ifconf |-> [c \in ChainIds |-> IfZero]]

\* The allocator (ral_challoc): per chip one centre frequency for each
\* front-end, and for each channel a front-end whose centre is within
\* SX130X_RFE_MAX of the channel.
RffCentre == [r \in RfChains |-> IF r = 0 THEN 867500000 ELSE 868500000]
ChOffsets == {-400000, 125000}
challoc_t(chip, chan, rff, freq, chans) ==
    [chip |-> chip, chan |-> chan, rff |-> rff, rff_freq |-> RffCentre[rff],
     freq |-> freq, chans |-> chans]

\* case CHALLOC_CH
challoc_ch(conf, ch) ==
    IF ch.chip > 0 THEN conf
    ELSE [rfconf |-> [conf.rfconf EXCEPT
                        ![ch.rff] = [enable |-> TRUE, freq_hz |-> ch.rff_freq]],
          ifconf |-> [conf.ifconf EXCEPT
                        ![ch.chan] =
                            [enable |-> TRUE, freq_hz |-> ch.freq, rf_chain |-> ch.rff,
                             datarate |->
                                IF ch.chan < LGW_IF_CHAIN_NB - 2 THEN "DR_LORA_MULTI"
                                ELSE IF ch.chan = LGW_IF_CHAIN_NB - 1 THEN "50000"
                                ELSE "rps"]]]

\* case CHALLOC_CHIP_DONE: full frequencies become offsets
challoc_chip_done(conf, chans) ==
    IF chans = 0 THEN conf
    ELSE [conf EXCEPT !.ifconf =
            [c \in ChainIds |->
                IF /\ conf.ifconf[c].enable
                   /\ conf.ifconf[c].freq_hz # 0
                   /\ abs(conf.ifconf[c].freq_hz) > SX130X_RFE_MAX
                THEN [conf.ifconf[c] EXCEPT
                        !.freq_hz = conf.ifconf[c].freq_hz
                                    - conf.rfconf[conf.ifconf[c].rf_chain].freq_hz]
                ELSE conf.ifconf[c]]]

NoAlloc == [phase |-> "idle", chip |-> 0, chans |-> 0, assigned |-> {}]

InitChalloc ==
    /\ chpre = ChZeroConf
    /\ chconf = ChZeroConf
    /\ alloc = NoAlloc

\* sx130xconf_parse_setup has filled the struct.
ChallocParsed ==
    /\ alloc.phase = "idle"
    /\ \E c \in ChParsedConfs :
          /\ chpre' = c
          /\ chconf' = c
    /\ alloc' = [alloc EXCEPT !.phase = "parsed"]
    /\ UNCHANGED notChalloc

\* ral_challoc begins: callback with CHALLOC_START.
ChallocStart ==
    /\ alloc.phase = "parsed"
    /\ alloc' = [alloc EXCEPT !.phase = "start"]
    /\ UNCHANGED <<chpre, chconf>>
    /\ UNCHANGED notChalloc

\* The next chip: callback with CHALLOC_CHIP_START.
ChallocChipStart ==
    /\ alloc.phase \in {"start", "chipdone"}
    /\ alloc.chip < MaxChips
    /\ alloc' = [alloc EXCEPT !.phase = "chip", !.chans = 0]
    /\ UNCHANGED <<chpre, chconf>>
    /\ UNCHANGED notChalloc

\* One channel is assigned: callback with CHALLOC_CH.  A chip after the
\* first gets at most a multi-SF channel in the model.
ChallocCh ==
    /\ alloc.phase = "chip"
    /\ \E chan \in ChainIds, rff \in RfChains, off \in ChOffsets :
          /\ alloc.chip > 0 => chan = 0
          /\ \A a \in alloc.assigned : ~(a.chip = alloc.chip /\ a.chan = chan)
          /\ \A a \in alloc.assigned : a.chip = alloc.chip => a.chan < chan
          /\ chconf' = challoc_ch(chconf,
                          challoc_t(alloc.chip, chan, rff, RffCentre[rff] + off,
                                    alloc.chans + 1))
          /\ alloc' = [alloc EXCEPT
                         !.chans = alloc.chans + 1,
                         !.assigned = alloc.assigned \cup
                            {[chip |-> alloc.chip, chan |-> chan, rff |-> rff,
                              freq |-> RffCentre[rff] + off]}]
    /\ UNCHANGED chpre
    /\ UNCHANGED notChalloc

\* The chip is complete: callback with CHALLOC_CHIP_DONE.
ChallocChipDone ==
    /\ alloc.phase = "chip"
    /\ chconf' = challoc_chip_done(chconf, alloc.chans)
    /\ alloc' = [alloc EXCEPT !.phase = "chipdone", !.chip = alloc.chip + 1]
    /\ UNCHANGED chpre
    /\ UNCHANGED notChalloc

\* ral_challoc ends: callback with CHALLOC_DONE.
ChallocDone ==
    /\ alloc.phase = "chipdone"
    /\ alloc' = [alloc EXCEPT !.phase = "done"]
    /\ UNCHANGED <<chpre, chconf>>
    /\ UNCHANGED notChalloc

\* The session ends; the next router_config starts from a cleared struct.
ChallocSessionEnd ==
    /\ alloc.phase = "done"
    /\ chpre' = ChZeroConf
    /\ chconf' = ChZeroConf
    /\ alloc' = NoAlloc
    /\ UNCHANGED notChalloc

NextChalloc ==
    \/ ChallocParsed \/ ChallocStart \/ ChallocChipStart \/ ChallocCh
    \/ ChallocChipDone \/ ChallocDone \/ ChallocSessionEnd

IfChainBound(conf, c) ==
    /\ conf.ifconf[c].rf_chain \in RfChains
    /\ abs(conf.ifconf[c].freq_hz) <= SX130X_RFE_MAX

\* C32: after channel allocation completes, every enabled IF chain is bound
\* to RF front-end 0 or 1 and its stored frequency is an offset from that
\* front-end's centre frequency of absolute value at most 400 kHz.
C32_EnabledChainsBound ==
    alloc.phase = "done" =>
        \A c \in ChainIds : chconf.ifconf[c].enable => IfChainBound(chconf, c)

\* The chains the allocation assigned (on the chip this struct configures)
\* are enabled and hold the channel's offset from the centre of its front-end.
AssignedChainsBound ==
    alloc.phase = "done" =>
        \A a \in alloc.assigned : a.chip = 0 =>
            /\ chconf.ifconf[a.chan].enable
            /\ chconf.ifconf[a.chan].rf_chain = a.rff
            /\ chconf.rfconf[a.rff] = [enable |-> TRUE, freq_hz |-> RffCentre[a.rff]]
            /\ chconf.ifconf[a.chan].freq_hz = a.freq - RffCentre[a.rff]
            /\ IfChainBound(chconf, a.chan)

\* When every chain the configuration enables has an "if" within the range,
\* all enabled chains are within it after the allocation.
ConfiguredInRange ==
    \A c \in ChainIds : chpre.ifconf[c].enable => IfChainBound(chpre, c)
EnabledChainsBoundIfConfigured ==
    (alloc.phase = "done" /\ ConfiguredInRange) =>
        \A c \in ChainIds : chconf.ifconf[c].enable => IfChainBound(chconf, c)

\* A chain enabled by the configuration and not assigned by the allocation.
StaleChainSeen ==
    /\ alloc.phase = "done"
    /\ \E c \in ChainIds :
          /\ chpre.ifconf[c].enable
          /\ \A a \in alloc.assigned : a.chip = 0 => a.chan # c
          /\ ~IfChainBound(chconf, c)
(***************************************************************************)
(* Life of a downlink job: accepted, queued, handed to lgw_send, confirmed *)
(***************************************************************************)

MaxDnJobs == 2     \* downlink jobs accepted over a run
MaxDnTime == 2     \* the radio's time runs 0..MaxDnTime
DnSlack   == 1     \* a job is handed over from its time minus the slack on

DnJobIds == 1..MaxDnJobs
NoDnJob == [st |-> "none", T |-> 0, freq |-> 0, dntxed |-> 0, failmsgs |-> 0]

DnQueued == { id \in DnJobIds : dnjobs[id].st = "queued" }
DnOnAir  == { id \in DnJobIds : dnjobs[id].st = "onair" }
\* pop-due-earliest: the queued job of the least time, then of the least id.
DnHead ==
    CHOOSE id \in DnQueued :
        \A k \in DnQueued :
            \/ dnjobs[id].T < dnjobs[k].T
            \/ dnjobs[id].T = dnjobs[k].T /\ id <= k

InitJob ==
    /\ dnjobs = [id \in DnJobIds |-> NoDnJob]
    /\ dnup = FALSE
    /\ dnnow = 0
    /\ dnn = 0

\* The transport connects.
DnConnect ==
    /\ ~dnup
    /\ dnup' = TRUE
    /\ UNCHANGED <<dnjobs, dnnow, dnn>>
    /\ UNCHANGED notJob

\* dnmsg: a job is accepted and queued.
DnAccept ==
    /\ dnup /\ dnn < MaxDnJobs
    /\ \E t \in 0..MaxDnTime, f \in HalFreqs :
          dnjobs' = [dnjobs EXCEPT ![dnn + 1] =
                        [NoDnJob EXCEPT !.st = "queued", !.T = t, !.freq = f]]
    /\ dnn' = dnn + 1
    /\ UNCHANGED <<dnup, dnnow>>
    /\ UNCHANGED notJob

\* The head of the queue is past its time: it is dropped as late.  The
\* station has no message to the LNS for that.
DnLate ==
    /\ dnup /\ DnQueued # {}
    /\ dnnow > dnjobs[DnHead].T
    /\ dnjobs' = [dnjobs EXCEPT ![DnHead].st = "late"]
    /\ UNCHANGED <<dnup, dnnow, dnn>>
    /\ UNCHANGED notJob

\* The head of the queue is due and the radio is free: the packet goes to
\* lgw_send.  On LGW_HAL_SUCCESS the job is on air; on any other return value
\* it is dropped, and the station has no message to the LNS for that.
DnSubmit ==
    /\ dnup /\ DnQueued # {} /\ DnOnAir = {}
    /\ dnjobs[DnHead].T - DnSlack <= dnnow
    /\ dnnow <= dnjobs[DnHead].T
    /\ \E infos \in CcaMsgs, sock \in BOOLEAN :
          dnjobs' = [dnjobs EXCEPT ![DnHead].st =
                        IF lgw_send([freq_hz |-> dnjobs[DnHead].freq,
                                     count_us |-> dnjobs[DnHead].T, size |-> 1],
                                    NoPkt, infos, sock).ret = "LGW_HAL_SUCCESS"
                        THEN "onair" ELSE "refused"]
    /\ UNCHANGED <<dnup, dnnow, dnn>>
    /\ UNCHANGED notJob

\* lgw_status reports TX_FREE for the job on air: dntxed with its diid goes
\* to the LNS.
DnTxFree ==
    /\ dnup
    /\ \E id \in DnOnAir :
          dnjobs' = [dnjobs EXCEPT ![id].st = "sent", ![id].dntxed = @ + 1]
    /\ UNCHANGED <<dnup, dnnow, dnn>>
    /\ UNCHANGED notJob

\* Time passes.
DnTick ==
    /\ dnnow < MaxDnTime
    /\ dnnow' = dnnow + 1
    /\ UNCHANGED <<dnjobs, dnup, dnn>>
    /\ UNCHANGED notJob

\* Transport disconnect: every job pending is cancelled.
DnDisconnect ==
    /\ dnup
    /\ dnup' = FALSE
    /\ dnjobs' = [id \in DnJobIds |->
                    IF dnjobs[id].st \in {"queued", "onair"}
                    THEN [dnjobs[id] EXCEPT !.st = "cancelled"]
                    ELSE dnjobs[id]]
    /\ UNCHANGED <<dnnow, dnn>>
    /\ UNCHANGED notJob

NextJob == DnConnect \/ DnAccept \/ DnLate \/ DnSubmit \/ DnTxFree \/ DnTick
           \/ DnDisconnect

DnConfirmations(id) == dnjobs[id].dntxed + dnjobs[id].failmsgs
DnFinished(id) == dnjobs[id].st \in {"sent", "refused", "late", "cancelled"}

\* C33: every downlink job accepted ends in exactly one outcome: exactly one
\* confirmation (dntxed or failure) has gone to the LNS for it, or it was
\* cancelled by a disconnect and none has; no job is confirmed twice.  (That
\* none stays queued for ever while the session is up is QueuedLeaves.)
C33_ExactlyOneOutcome ==
    \A id \in DnJobIds :
        /\ DnConfirmations(id) <= 1
        /\ DnFinished(id) =>
              \/ dnjobs[id].st = "cancelled" /\ DnConfirmations(id) = 0
              \/ dnjobs[id].st # "cancelled" /\ DnConfirmations(id) = 1

\* The parts of it: no job is confirmed twice, a job that was on air until
\* TX_FREE has its one dntxed, a cancelled job has none.
DnNoDoubleConfirmation ==
    \A id \in DnJobIds : DnConfirmations(id) <= 1
DnSentOrCancelled ==
    \A id \in DnJobIds :
        /\ dnjobs[id].st = "sent" => DnConfirmations(id) = 1
        /\ dnjobs[id].st = "cancelled" => DnConfirmations(id) = 0
\* A job refused by lgw_send, or dropped as late, with nothing sent for it.
DnRefusedSeen ==
    \E id \in DnJobIds : dnjobs[id].st = "refused" /\ DnConfirmations(id) = 0
DnLateSeen ==
    \E id \in DnJobIds : dnjobs[id].st = "late" /\ DnConfirmations(id) = 0

\* No job stays queued for ever: the timers of the TX pipeline fire, time
\* passes up to the job's time, the status poll goes on.
QueuedLeaves ==
    \A id \in DnJobIds : (dnjobs[id].st = "queued") ~> (dnjobs[id].st # "queued")
FairJob ==
    /\ WF_vars(DnLate) /\ WF_vars(DnSubmit) /\ WF_vars(DnTxFree) /\ WF_vars(DnTick)
(***************************************************************************)
(* RX ring buffer of the simulator: rbfree, read_socket, lgw_receive       *)
(***************************************************************************)

RX_NPKTS   == 3    \* packets the ring holds (1000 in the source)
RxPktSize  == 2    \* sizeof(rx_pkts[0]) in bytes of the model
MaxRxPkts  == 5    \* packets the harness sends over a run
MaxPktArg  == 2    \* max_pkt of lgw_receive lies in 1..MaxPktArg

rxblen == RxPktSize * RX_NPKTS

rbfree(widx, ridx, len) == IF widx >= ridx THEN len - widx ELSE ridx - widx - 1
rbused(widx, ridx, len) == IF widx >= ridx THEN widx - ridx ELSE len - ridx + widx

\* rx_ridx = (rx_ridx+sizeof(rx_pkts[0])) % rxblen
rb_advance(ridx) == (ridx + RxPktSize) % rxblen

\* A byte of the stream: the k-th byte of packet id; NoByte where nothing
\* was ever written.  rx_pkts has RX_NPKTS+1 elements.
NoByte == [id |-> 0, k |-> 0]
RxBufIdx == 0..(RxPktSize * (RX_NPKTS + 1) - 1)
MinOf(a, b) == IF a < b THEN a ELSE b

\* The packet in the slot at byte index i: the packet its first byte belongs
\* to, and whether the slot holds all of its bytes.
SlotPkt(buf, i) ==
    [id |-> buf[i].id,
     ok |-> \A k \in 1..RxPktSize : buf[i + k - 1] = [id |-> buf[i].id, k |-> k]]

\* freq_hz, the first field of the slot, is MAGIC_CCA_FREQ.
IsMagic(b, kinds) == b.id # 0 /\ b.k = 1 /\ kinds[b.id] = "cca"

RbInit ==
    [buf |-> [i \in RxBufIdx |-> NoByte], ridx |-> 0, widx |-> 0, dsc |-> 0,
     cca |-> 0, q |-> <<>>, rxlen |-> 0, n |-> 0,
     read |-> 0, dropped |-> {}, ccaids |-> {}]

\* read_socket, one turn of its loop after the other until read() has no
\* more bytes (EAGAIN).
RECURSIVE read_socket(_, _)
\* where to read to and how much: discarding, buffer full, or free space
rs_window(s) ==
    IF s.dsc # 0 THEN [s EXCEPT !.rxlen = RxPktSize - s.dsc]
    ELSE IF rbfree(s.widx, s.ridx, rxblen) = 0
    THEN [s EXCEPT !.dsc = s.widx % RxPktSize,
                   !.widx = s.widx - (s.widx % RxPktSize),
                   !.rxlen = RxPktSize - (s.widx % RxPktSize)]
    ELSE [s EXCEPT !.rxlen = rbfree(s.widx, s.ridx, rxblen)]
\* read(aio->fd, rxbuf, rxlen) returning n > 0
rs_store(s, n) ==
    [s EXCEPT !.buf = [i \in RxBufIdx |->
                          IF i >= s.widx /\ i < s.widx + n
                          THEN s.q[i - s.widx + 1] ELSE s.buf[i]],
              !.q = SubSeq(s.q, n + 1, Len(s.q)),
              !.read = s.read + n,
              !.n = n]
\* a CCA message at the read index is taken out into cca_msg
rs_cca(s, kinds) ==
    IF /\ rbused(s.widx, s.ridx, rxblen) >= RxPktSize
       /\ IsMagic(s.buf[s.ridx], kinds)
    THEN [s EXCEPT !.cca = s.buf[s.ridx].id,
                   !.ccaids = s.ccaids \cup {s.buf[s.ridx].id},
                   !.ridx = rb_advance(s.ridx)]
    ELSE s
rs_after(s, kinds) ==
    IF s.dsc # 0 \/ rbfree(s.widx, s.ridx, rxblen) = 0
    THEN read_socket([s EXCEPT !.dsc = s.dsc + s.n], kinds)
    ELSE read_socket(rs_cca([s EXCEPT !.widx = (s.widx + s.n) % rxblen], kinds), kinds)
rs_read(s, kinds) ==
    IF s.q = <<>> THEN [s EXCEPT !.rxlen = 0, !.n = 0]
    ELSE rs_after(rs_store(s, MinOf(s.rxlen, Len(s.q))), kinds)
read_socket(s, kinds) ==
    IF s.dsc # 0 /\ s.dsc % RxPktSize = 0
    THEN read_socket([s EXCEPT !.dsc = 0,
                               !.dropped = s.dropped \cup {s.read \div RxPktSize}],
                     kinds)
    ELSE rs_read(rs_window(s), kinds)

\* lgw_receive: the struct after the call and the packets copied out.
RECURSIVE lgw_receive(_, _, _)
lgw_receive(s, max_pkt, pkt_data) ==
    IF Len(pkt_data) < max_pkt /\ rbused(s.widx, s.ridx, rxblen) >= RxPktSize
    THEN lgw_receive([s EXCEPT !.ridx = rb_advance(s.ridx)], max_pkt,
                     Append(pkt_data, SlotPkt(s.buf, s.ridx)))
    ELSE [s |-> s, pkt_data |-> pkt_data]

\* The packets between the read and the write index, oldest first.
RbQueued(s) ==
    [i \in 1..(rbused(s.widx, s.ridx, rxblen) \div RxPktSize) |->
        SlotPkt(s.buf, (s.ridx + (i - 1) * RxPktSize) % rxblen)]

NoRbCall == [max_pkt |-> 0, pkt_data |-> <<>>, before |-> <<>>]

InitRing ==
    /\ rb = RbInit
    /\ rbkinds = <<>>
    /\ rbsent = 0
    /\ rbret = <<>>
    /\ rblast = NoRbCall

\* The harness writes the next byte of its stream to the socket; with the
\* first byte of a packet it is settled whether it is a CCA message.
SimSend ==
    /\ rbsent < MaxRxPkts * RxPktSize
    /\ \E kind \in {"pkt", "cca"} :
          rbkinds' = IF rbsent % RxPktSize = 0 THEN Append(rbkinds, kind)
                     ELSE rbkinds
    /\ rb' = [rb EXCEPT !.q = Append(rb.q, [id |-> (rbsent \div RxPktSize) + 1,
                                             k |-> (rbsent % RxPktSize) + 1])]
    /\ rbsent' = rbsent + 1
    /\ UNCHANGED <<rbret, rblast>>
    /\ UNCHANGED notRing

\* The socket is readable: read_socket.
ReadSocket ==
    /\ rb.q # <<>>
    /\ rb' = read_socket(rb, rbkinds)
    /\ UNCHANGED <<rbkinds, rbsent, rbret, rblast>>
    /\ UNCHANGED notRing

\* The station polls: lgw_receive(max_pkt, pkt_data).
LgwReceive ==
    /\ \E max_pkt \in 1..MaxPktArg :
          /\ rb' = lgw_receive(rb, max_pkt, <<>>).s
          /\ rbret' = rbret \o lgw_receive(rb, max_pkt, <<>>).pkt_data
          /\ rblast' = [max_pkt |-> max_pkt,
                        pkt_data |-> lgw_receive(rb, max_pkt, <<>>).pkt_data,
                        before |-> RbQueued(rb)]
    /\ UNCHANGED <<rbkinds, rbsent>>
    /\ UNCHANGED notRing

NextRing == SimSend \/ ReadSocket \/ LgwReceive

\* The packets read completely from the socket, and of these the ones that
\* were neither discarded because the buffer was full nor taken out as CCA
\* messages, oldest first.
RbComplete == 1..(rb.read \div RxPktSize)
RbForStation == { id \in RbComplete : id \notin rb.dropped /\ id \notin rb.ccaids }
RECURSIVE RbAscending(_)
RbAscending(S) ==
    IF S = {} THEN <<>>
    ELSE <<CHOOSE x \in S : \A y \in S : x <= y>>
            \o RbAscending(S \ {CHOOSE x \in S : \A y \in S : x <= y})
RbIds(pkts) == [i \in 1..Len(pkts) |-> pkts[i].id]
IsPrefix(a, b) == Len(a) <= Len(b) /\ a = SubSeq(b, 1, Len(a))

\* C34: lgw_receive returns the queued packets oldest first and each
\* exactly once, never more than max_pkt per call, over any interleaving of
\* socket reads and lgw_receive calls: what it has returned so far is the
\* packets read for the station, in their order, with none left out.
C34_ReceiveInOrderOnce ==
    /\ Len(rblast.pkt_data) <= rblast.max_pkt
    /\ \A i \in 1..Len(rbret) : rbret[i].ok
    /\ IsPrefix(RbIds(rbret), RbAscending(RbForStation))

\* The parts of it that hold: never more than max_pkt, whole packets only,
\* the oldest packets of the queue as it stood, oldest first, none twice.
RbReturnedWithinMax ==
    /\ Len(rblast.pkt_data) <= rblast.max_pkt
    /\ \A i \in 1..Len(rbret) : rbret[i].ok
RbReturnedHeadOfQueue ==
    /\ IsPrefix(rblast.pkt_data, rblast.before)
    /\ Len(rblast.pkt_data) = MinOf(rblast.max_pkt, Len(rblast.before))
RbReturnedAscending ==
    \A i, j \in 1..Len(rbret) : i < j => rbret[i].id < rbret[j].id

\* C35: the read and the write index stay inside the buffer, the read
\* index on a packet boundary; every packet read completely from the socket
\* is queued, was returned, or was discarded whole because the buffer was
\* full (or was taken out as a CCA message), and the queued ones are whole:
\* filling the buffer makes no queued packet vanish and overwrites none.
C35_RingAccounting ==
    /\ rb.ridx \in 0..(rxblen - 1) /\ rb.widx \in 0..(rxblen - 1)
    /\ rb.ridx % RxPktSize = 0
    /\ \A i \in 1..Len(RbQueued(rb)) : RbQueued(rb)[i].ok
    /\ \A id \in RbComplete :
          \/ id \in rb.dropped
          \/ id \in rb.ccaids
          \/ \E i \in 1..Len(rbret) : rbret[i].id = id
          \/ \E i \in 1..Len(RbQueued(rb)) : RbQueued(rb)[i].id = id

\* The parts of it that hold: the indices, and whole packets in the queue.
RbIndicesInside ==
    /\ rb.ridx \in 0..(rxblen - 1) /\ rb.widx \in 0..(rxblen - 1)
    /\ rb.ridx % RxPktSize = 0
    /\ \A i \in 1..Len(RbQueued(rb)) : RbQueued(rb)[i].ok
\* A packet was discarded whole because the buffer was full.
RbDroppedSeen == rb.dropped # {}
\* The write index has wrapped onto the read index: RX_NPKTS packets read,
\* none of them queued, returned or discarded.
RbVanishedSeen ==
    /\ rb.read = rxblen /\ rb.widx = rb.ridx
    /\ rbret = <<>> /\ rb.dropped = {} /\ rb.ccaids = {}

\* C36: a CCA control message only updates the CCA table and is never
\* returned by lgw_receive, however many packets are queued ahead of it.
C36_CcaNeverReturned ==
    \A i \in 1..Len(rbret) : rbkinds[rbret[i].id] # "cca"

\* A CCA message that arrived with the queue empty went into the table.
RbCcaApplied ==
    /\ rb.cca # 0 /\ rb.cca \in rb.ccaids
    /\ \A i \in 1..Len(rbret) : rbret[i].id # rb.cca
\* Every CCA message read completely is in the table's history, or still
\* queued behind a packet, or was discarded; none went to the station.
RbCcaReturnedSeen ==
    \E i \in 1..Len(rbret) : rbkinds[rbret[i].id] = "cca" /\ rbret[i].ok
(***************************************************************************)
(* TX state of the simulator: lgw_send, lgw_status, lgw_abort_tx, lgw_stop *)
(***************************************************************************)

XMod       == 4     \* count_us wraps at XMod (2^32 in the source)
XStart     == 6     \* xticks when the model begins
MaxXt      == 11    \* xticks runs up to MaxXt
MaxTsSends == 2     \* calls of lgw_send over a run

TsFreqBusy == 923200000
\* cca_msg: empty, or TsFreqBusy busy all the time.
TsCcaMsgs == { <<>>, <<[freq |-> TsFreqBusy, beg |-> 0, end |-> MaxXt + XMod]>> }
TsAirtimes == {1, 3}
TsPkts == { [freq_hz |-> f, count_us |-> c, size |-> a] :
              f \in HalFreqs, c \in 0..(XMod - 1), a \in TsAirtimes }

\* (s4_t)((u4_t)count_us - (u4_t)t): the difference in the counter's width,
\* taken as a signed number.
s4_diff(count_us, t) ==
    IF (count_us - t) % XMod >= XMod \div 2 THEN ((count_us - t) % XMod) - XMod
    ELSE (count_us - t) % XMod

\* lgw_send at xticks t: what it returns and what it leaves in txbeg, txend,
\* tx_pkt.  The airtime of the packet is its size in the model.
lgw_send_at(t, pkt, sim) ==
    IF ~cca(sim.cca_msg, t + s4_diff(pkt.count_us, t), pkt.freq_hz)
    THEN [ret |-> "LGW_LBT_ISSUE",
          sim |-> [sim EXCEPT !.txbeg = t + s4_diff(pkt.count_us, t),
                              !.txend = t + s4_diff(pkt.count_us, t) + pkt.size]]
    ELSE IF ~sim.aio
    THEN [ret |-> "LGW_HAL_ERROR",
          sim |-> [sim EXCEPT !.txbeg = t + s4_diff(pkt.count_us, t),
                              !.txend = t + s4_diff(pkt.count_us, t) + pkt.size,
                              !.tx_pkt = pkt]]
    ELSE [ret |-> "LGW_HAL_SUCCESS",
          sim |-> [sim EXCEPT !.txbeg = t + s4_diff(pkt.count_us, t),
                              !.txend = t + s4_diff(pkt.count_us, t) + pkt.size,
                              !.tx_pkt = pkt]]

lgw_status(t, sim) ==
    IF t <= sim.txbeg THEN "TX_SCHEDULED"
    ELSE IF t <= sim.txend THEN "TX_EMITTING"
    ELSE "TX_FREE"

lgw_abort_tx(sim) == [sim EXCEPT !.txbeg = 0, !.txend = 0]
lgw_stop(sim) == [sim EXCEPT !.txbeg = 0, !.txend = 0, !.aio = FALSE]

TxRank == [TX_SCHEDULED |-> 1, TX_EMITTING |-> 2, TX_FREE |-> 3, none |-> 0]

NoTsAcc == [valid |-> FALSE, T |-> 0, A |-> 0, ended |-> FALSE, refused |-> FALSE]
NoTsObs == [code |-> "none", at |-> 0, max |-> 0]
NoTsCall == [ret |-> "none", before |-> <<>>, after |-> <<>>]
TsState(sim) == <<sim.txbeg, sim.txend, sim.tx_pkt>>

InitTxstat ==
    /\ tssim = [txbeg |-> 0, txend |-> 0, tx_pkt |-> NoPkt, aio |-> TRUE, cca_msg |-> <<>>]
    /\ xt = XStart
    /\ tsn = 0
    /\ tsacc = NoTsAcc
    /\ tsobs = NoTsObs
    /\ tslast = NoTsCall

\* The station hands a packet to lgw_send.
TsSend ==
    /\ tsn < MaxTsSends
    /\ \E pkt \in TsPkts :
          /\ tssim' = lgw_send_at(xt, pkt, tssim).sim
          /\ tslast' = [ret |-> lgw_send_at(xt, pkt, tssim).ret,
                        before |-> TsState(tssim),
                        after |-> TsState(lgw_send_at(xt, pkt, tssim).sim)]
          /\ tsacc' = IF lgw_send_at(xt, pkt, tssim).ret = "LGW_HAL_SUCCESS"
                      THEN [valid |-> TRUE, T |-> xt + s4_diff(pkt.count_us, xt),
                            A |-> pkt.size, ended |-> FALSE, refused |-> FALSE]
                      ELSE [tsacc EXCEPT !.refused = TRUE]
          /\ tsobs' = IF lgw_send_at(xt, pkt, tssim).ret = "LGW_HAL_SUCCESS"
                      THEN NoTsObs ELSE tsobs
    /\ tsn' = tsn + 1
    /\ UNCHANGED xt
    /\ UNCHANGED notTxstat

\* The station polls lgw_status.
TsStatus ==
    /\ tsobs' = [code |-> lgw_status(xt, tssim), at |-> xt,
                 max |-> TxRank[tsobs.code]]
    /\ tslast' = NoTsCall
    /\ UNCHANGED <<tssim, xt, tsn, tsacc>>
    /\ UNCHANGED notTxstat

TsAbort ==
    /\ tssim' = lgw_abort_tx(tssim)
    /\ tsacc' = [tsacc EXCEPT !.ended = TRUE]
    /\ tsobs' = NoTsObs
    /\ tslast' = NoTsCall
    /\ UNCHANGED <<xt, tsn>>
    /\ UNCHANGED notTxstat

TsStop ==
    /\ tssim.aio
    /\ tssim' = lgw_stop(tssim)
    /\ tsacc' = [tsacc EXCEPT !.ended = TRUE]
    /\ tsobs' = NoTsObs
    /\ tslast' = NoTsCall
    /\ UNCHANGED <<xt, tsn>>
    /\ UNCHANGED notTxstat

\* lgw_start and try_connecting: the socket is open again.
TsStart ==
    /\ ~tssim.aio
    /\ tssim' = [tssim EXCEPT !.aio = TRUE, !.cca_msg = <<>>]
    /\ tslast' = NoTsCall
    /\ UNCHANGED <<xt, tsn, tsacc, tsobs>>
    /\ UNCHANGED notTxstat

\* read_socket takes a CCA message into cca_msg.
TsCca ==
    /\ tssim.aio
    /\ \E m \in TsCcaMsgs : m # tssim.cca_msg /\ tssim' = [tssim EXCEPT !.cca_msg = m]
    /\ tslast' = NoTsCall
    /\ UNCHANGED <<xt, tsn, tsacc, tsobs>>
    /\ UNCHANGED notTxstat

TsTick ==
    /\ xt < MaxXt
    /\ xt' = xt + 1
    /\ tslast' = NoTsCall
    /\ UNCHANGED <<tssim, tsn, tsacc, tsobs>>
    /\ UNCHANGED notTxstat

NextTxstat == TsSend \/ TsStatus \/ TsAbort \/ TsStop \/ TsStart \/ TsCca \/ TsTick

\* What lgw_status has to report at the time of the last poll for the last
\* accepted lgw_send, and that it has not gone back since that lgw_send.
TsStatusRight ==
    /\ ~tsacc.ended =>
          /\ tsobs.at < tsacc.T => tsobs.code = "TX_SCHEDULED"
          /\ (tsacc.T < tsobs.at /\ tsobs.at < tsacc.T + tsacc.A)
                => tsobs.code = "TX_EMITTING"
          /\ tsobs.at > tsacc.T + tsacc.A => tsobs.code = "TX_FREE"
    /\ tsacc.ended => tsobs.code = "TX_FREE"
    /\ TxRank[tsobs.code] >= tsobs.max

\* C37: after an accepted lgw_send with start T and airtime A, lgw_status
\* reports TX_SCHEDULED until T, TX_EMITTING from T to T+A and TX_FREE
\* afterwards; it only moves forward until the next accepted lgw_send, and
\* lgw_abort_tx or lgw_stop makes it TX_FREE at once.
C37_StatusFollowsSend ==
    (tsacc.valid /\ tsobs.code # "none") => TsStatusRight

\* The same while no lgw_send was refused since the accepted one.
TsStatusFollowsUnlessRefused ==
    (tsacc.valid /\ tsobs.code # "none" /\ ~tsacc.refused) => TsStatusRight
\* All three codes seen in turn for one accepted lgw_send.
TsFreeAfterEmitting ==
    /\ tsacc.valid /\ ~tsacc.ended /\ ~tsacc.refused
    /\ tsobs.code = "TX_FREE" /\ tsobs.max = TxRank["TX_EMITTING"]
\* The status of an accepted lgw_send gone back after a refused one.
TsWentBack ==
    /\ tsacc.valid /\ tsacc.refused /\ ~tsacc.ended
    /\ TxRank[tsobs.code] < tsobs.max

\* C38: a refused lgw_send (LGW_LBT_ISSUE or LGW_HAL_ERROR) changes nothing:
\* the TX state (txbeg, txend) and the pending packet are as before the call.
C38_RefusedSendChangesNothing ==
    tslast.ret \in {"LGW_LBT_ISSUE", "LGW_HAL_ERROR"} => tslast.after = tslast.before

\* On LGW_LBT_ISSUE the pending packet is as before.
TsLbtKeepsPacket ==
    tslast.ret = "LGW_LBT_ISSUE" => tslast.after[3] = tslast.before[3]
TsRefusedChanged ==
    /\ tslast.ret = "LGW_LBT_ISSUE"
    /\ tslast.after[1] # tslast.before[1]
TsHalErrorChanged ==
    /\ tslast.ret = "LGW_HAL_ERROR"
    /\ tslast.after[3] # tslast.before[3]
(***************************************************************************)
(* The simulator's socket: lgw_start, try_connecting, lgw_stop             *)
(***************************************************************************)

MaxStarts == 2    \* calls of lgw_start over a run
MaxFails  == 2    \* failed attempts in a row the run keeps count of
MaxSecs   == 2    \* seconds since the last attempt the run keeps count of

\* conn_tmr: off, due now (rt_yieldTo), or due in one second
\* (rt_setTimer(tmr, rt_seconds_ahead(1))).
TmrOff == "off"
TmrNow == "now"
TmrOneSecond == "1s"

\* aio: "none" for NULL, "up" for an open connection, "failed" for one on
\* which read or write found the peer gone; fds counts the descriptors open.
\* wrfn is set while a write of tx_pkt is still to be done.
NoConn == [aio |-> "none", fds |-> 0, tmr |-> TmrOff, wrfn |-> FALSE]

\* a retry that is not armed
conn_retry_off(c) == [c EXCEPT !.tmr = TmrOff]
\* retry: rt_setTimer(tmr, rt_seconds_ahead(1))
conn_retry(c) == [c EXCEPT !.tmr = TmrOneSecond]

\* aio_close(aio); aio = NULL
conn_close(c) ==
    IF c.aio # "none" THEN [c EXCEPT !.aio = "none", !.fds = c.fds - 1, !.wrfn = FALSE]
    ELSE c

\* rt_yieldTo(&conn_tmr, try_connecting) in read_socket and write_socket
conn_yield(c) == [c EXCEPT !.aio = "failed", !.tmr = TmrNow]

\* write_socket and read_socket on the connection just opened
conn_io(c, wr, rd) ==
    IF wr \in {"closed", "error"} \/ rd \in {"closed", "error"}
    THEN conn_yield([c EXCEPT !.wrfn = (wr # "ok")])
    ELSE [c EXCEPT !.wrfn = (wr # "ok")]

\* try_connecting, the timer having fired: sock is what socket() and
\* connect() do, wr and rd what the first write and read on the connection do.
try_connecting(c, sock, wr, rd) ==
    IF sock = "socket_fails"
    THEN conn_retry(conn_close([c EXCEPT !.tmr = TmrOff]))
    ELSE IF sock = "connect_fails"
    THEN conn_retry(conn_close([c EXCEPT !.tmr = TmrOff]))
    ELSE conn_io([conn_close([c EXCEPT !.tmr = TmrOff])
                    EXCEPT !.aio = "up",
                           !.fds = conn_close(c).fds + 1], wr, rd)

\* lgw_stop
conn_stop(c) == conn_close([c EXCEPT !.tmr = TmrOff])

SockOutcomes == {"socket_fails", "connect_fails", "connected"}
IoOutcomes == {"ok", "eagain", "closed", "error"}
NoAttempt == [made |-> FALSE, running |-> FALSE, retry |-> FALSE, waited |-> 0,
              released |-> TRUE]

InitConn ==
    /\ simconn = NoConn
    /\ simrun = FALSE
    /\ simstarts = 0
    /\ simwait = [retry |-> FALSE, secs |-> 0, fails |-> 0]
    /\ simtry = NoAttempt

\* lgw_start
SimStart ==
    /\ ~simrun /\ simstarts < MaxStarts
    /\ simconn.aio = "none"
    /\ simconn' = [simconn EXCEPT !.tmr = TmrNow]
    /\ simrun' = TRUE
    /\ simstarts' = simstarts + 1
    /\ simwait' = [retry |-> FALSE, secs |-> 0, fails |-> 0]
    /\ simtry' = NoAttempt
    /\ UNCHANGED notConn

\* conn_tmr fires: try_connecting
SimTryConnecting ==
    /\ simconn.tmr = TmrNow
    /\ \E sock \in SockOutcomes, wr \in IoOutcomes, rd \in IoOutcomes :
          /\ sock # "connected" => (wr = "ok" /\ rd = "ok")
          /\ simconn' = try_connecting(simconn, sock, wr, rd)
          /\ simwait' = [retry |-> sock # "connected", secs |-> 0,
                         fails |-> IF sock = "connected" THEN 0
                                   ELSE IF simwait.fails < MaxFails
                                   THEN simwait.fails + 1 ELSE MaxFails]
    /\ simtry' = [made |-> TRUE, running |-> simrun, retry |-> simwait.retry,
                  waited |-> simwait.secs,
                  released |-> conn_close(simconn).fds = 0]
    /\ UNCHANGED <<simrun, simstarts>>
    /\ UNCHANGED notConn

\* read_socket or write_socket on the open connection: the peer has closed
\* it, or the call fails.
SimPeerGone ==
    /\ simconn.aio = "up"
    /\ simconn' = conn_yield(simconn)
    /\ simwait' = [simwait EXCEPT !.retry = FALSE]
    /\ simtry' = [simtry EXCEPT !.made = FALSE]
    /\ UNCHANGED <<simrun, simstarts>>
    /\ UNCHANGED notConn

\* The socket is writable with a write still to be done: write_socket.
SimWritable ==
    /\ simconn.aio = "up" /\ simconn.wrfn
    /\ \E wr \in IoOutcomes :
          simconn' = IF wr \in {"closed", "error"} THEN conn_yield(simconn)
                     ELSE [simconn EXCEPT !.wrfn = (wr # "ok")]
    /\ simwait' = [simwait EXCEPT !.retry = FALSE]
    /\ simtry' = [simtry EXCEPT !.made = FALSE]
    /\ UNCHANGED <<simrun, simstarts>>
    /\ UNCHANGED notConn

\* One second passes; a timer that is due fires first.
SimSecond ==
    /\ simconn.tmr # TmrNow
    /\ simwait.secs < MaxSecs
    /\ simconn' = IF simconn.tmr = TmrOneSecond THEN [simconn EXCEPT !.tmr = TmrNow] ELSE simconn
    /\ simwait' = [simwait EXCEPT !.secs = simwait.secs + 1]
    /\ simtry' = [simtry EXCEPT !.made = FALSE]
    /\ UNCHANGED <<simrun, simstarts>>
    /\ UNCHANGED notConn

\* lgw_stop
SimStop ==
    /\ simrun
    /\ simconn' = conn_stop(simconn)
    /\ simrun' = FALSE
    /\ simwait' = [retry |-> FALSE, secs |-> 0, fails |-> simwait.fails]
    /\ simtry' = [simtry EXCEPT !.made = FALSE]
    /\ UNCHANGED simstarts
    /\ UNCHANGED notConn

NextConn == SimStart \/ SimTryConnecting \/ SimPeerGone \/ SimWritable
            \/ SimSecond \/ SimStop

\* The timer fires when it is due and the second passes.
FairConn == WF_vars(SimTryConnecting) /\ WF_vars(SimSecond)

\* While started and without a good connection an attempt is pending; the
\* old connection is released by every attempt and no descriptor is left
\* behind; an attempt after a failed one comes one second after it; after
\* lgw_stop nothing is pending, nothing is open, and no attempt is made.
ConnSafe ==
    /\ (simrun /\ simconn.aio # "up") => simconn.tmr # TmrOff
    /\ simconn.fds = (IF simconn.aio = "none" THEN 0 ELSE 1)
    /\ simtry.made => (simtry.running /\ simtry.released)
    /\ (simtry.made /\ simtry.retry) => simtry.waited = 1
    /\ ~simrun => (simconn.tmr = TmrOff /\ simconn.aio = "none" /\ ~simtry.made)
ConnWaiting == simrun /\ simconn.aio # "up"
ConnTried == simtry.made \/ ~simrun \/ simconn.aio = "up"

ConnUpAfterRetry ==
    /\ simrun /\ simtry.made /\ simtry.retry /\ simconn.aio = "up" /\ simconn.tmr = TmrOff
(***************************************************************************)
(* TX gain table at concentrator start: parse_tx_gain_lut, limit to 26 dBm *)
(***************************************************************************)

MaxLutLen == 3    \* entries of a configured tx_lut
LutPowerLimit == 26

\* The entries of a configured table: rf_power given or left out.
LutEntries == Opt({20, 26, 27})
LutTables == UNION { [1..n -> LutEntries] : n \in 1..MaxLutLen }
LutRegions == {"AS923_1", "AS923_2", "AS923_3", "AS923_4", "AU915", "EU868"}
LutLimited == {"AS923_1", "AS923_2", "AS923_3", "AS923_4", "AU915"}

\* parse_tx_gain_lut: every slot is filled in its place, size follows the
\* last slot; a field left out stays 0.
parse_tx_gain_lut(tab) ==
    [size |-> Len(tab),
     lut |-> [i \in 1..Len(tab) |->
                [rf_power |-> IF tab[i] = <<>> THEN 0 ELSE tab[i][1]]]]

\* sx130xconf_start: for the limited regions the entries above 26 dBm are
\* counted and the size is cut by their number.
limit_lut_to_26(txlut, cca_region) ==
    IF cca_region \in LutLimited
    THEN [txlut EXCEPT !.size = txlut.size -
            Cardinality({ i \in 1..txlut.size : txlut.lut[i].rf_power > LutPowerLimit })]
    ELSE txlut

\* The table the HAL gets: the first size entries.
LutGiven(txlut) == [i \in 1..txlut.size |-> txlut.lut[i].rf_power]

NoLut == [tab |-> <<>>, region |-> "none"]

InitLut ==
    /\ lutin = NoLut
    /\ lutout = <<>>

\* router_config with a tx_lut, then sx130xconf_start.
LutStart ==
    /\ lutin = NoLut
    /\ \E tab \in LutTables, region \in LutRegions :
          /\ lutin' = [tab |-> tab, region |-> region]
          /\ lutout' = LutGiven(limit_lut_to_26(parse_tx_gain_lut(tab), region))
    /\ UNCHANGED notLut

\* The session ends.
LutSessionEnd ==
    /\ lutin # NoLut
    /\ lutin' = NoLut
    /\ lutout' = <<>>
    /\ UNCHANGED notLut

NextLut == LutStart \/ LutSessionEnd

LutCount(s, v) == Cardinality({ i \in 1..Len(s) : s[i] = v })
LutConfigured == LutGiven(parse_tx_gain_lut(lutin.tab))
LutAscending(s) == \A i, j \in 1..Len(s) : i < j => s[i] <= s[j]

LutWithinLimit ==
    /\ \A i \in 1..Len(lutout) : lutout[i] <= LutPowerLimit
    /\ \A v \in 0..LutPowerLimit : LutCount(lutout, v) = LutCount(LutConfigured, v)

\* C40: for AS923-1..4 and AU915 the TX gain table given to the HAL after
\* start has no entry with rf_power above 26 dBm and still has every
\* configured entry of 26 dBm or less, whatever the order of the entries in
\* the configured table.
C40_LutLimited ==
    lutin.region \in LutLimited => LutWithinLimit

\* The same for tables whose entries are in ascending order of rf_power.
LutLimitedIfAscending ==
    (lutin.region \in LutLimited /\ LutAscending(LutConfigured)) => LutWithinLimit
\* Other regions get the table as configured.
LutOtherRegionsUntouched ==
    (lutin # NoLut /\ lutin.region \notin LutLimited) => lutout = LutConfigured
\* A table in another order: an entry above 26 dBm given to the HAL, one of
\* 26 dBm or less missing.
LutWrongEntriesSeen ==
    /\ lutin.region \in LutLimited
    /\ \E i \in 1..Len(lutout) : lutout[i] > LutPowerLimit
    /\ LutCount(lutout, 20) < LutCount(LutConfigured, 20)
\* An ascending table cut at 26 dBm.
LutCutSeen ==
    /\ lutin.region = "AU915" /\ LutConfigured = <<20, 26, 27>> /\ lutout = <<20, 26>>
(***************************************************************************)
(* Specifications                                                          *)
(***************************************************************************)
Init == InitRx /\ InitDR /\ InitTx /\ InitCfg /\ InitDC /\ InitHal /\ InitLbt /\ InitPps /\ InitDrift /\ InitPdu /\ InitNego /\ InitTcpb /\ InitSess /\ InitLayer /\ InitChalloc /\ InitJob /\ InitRing /\ InitTxstat /\ InitConn /\ InitLut

SpecRx == Init /\ [][NextRx]_vars
SpecDR == Init /\ [][NextDR]_vars
SpecTx == Init /\ [][NextTx]_vars
SpecCfg == Init /\ [][NextCfg]_vars
SpecDC == Init /\ [][NextDC]_vars
SpecHal == Init /\ [][NextHal]_vars
SpecLbt == Init /\ [][NextLbt]_vars
SpecPps == Init /\ [][NextPps]_vars
SpecDrift == Init /\ [][NextDrift]_vars
SpecPdu == Init /\ [][NextPdu]_vars
SpecNego == Init /\ [][NextNego]_vars
SpecTcpb == Init /\ [][NextTcpb]_vars
SpecSess == Init /\ [][NextSess]_vars
SpecLayer == Init /\ [][NextLayer]_vars
SpecChalloc == Init /\ [][NextChalloc]_vars
SpecJob == Init /\ [][NextJob]_vars
SpecRing == Init /\ [][NextRing]_vars
SpecTxstat == Init /\ [][NextTxstat]_vars
SpecConn == Init /\ [][NextConn]_vars
SpecLut == Init /\ [][NextLut]_vars

SpecConnLive == Init /\ [][NextConn]_vars /\ FairConn
SpecJobLive == Init /\ [][NextJob]_vars /\ FairJob
====
